---- MODULE Spec2Model ----
(***************************************************************************)
(* vimrace: the key parser, the motion engine, the buffer primitives, the  *)
(* undo/redo history and the session (Model) that dispatches parsed keys.  *)
(*                                                                         *)
(* A line of text is a sequence of one-character strings; rows and columns *)
(* are zero-based as in the source.  A key is the string Bubble Tea hands  *)
(* to Update: a single character or a named key ("esc", "ctrl+r", ...).    *)
(* The zero rune is the empty string, a nil slice is the empty sequence.   *)
(***************************************************************************)
EXTENDS Integers, Sequences, FiniteSets, TLC

VARIABLES State, GameMode, LessonIndex, ExIndex, LevelIndex,
          Buffer, Cursor, Target, GoalLines, VimMode, Undo,
          Score, TargetsHit, Keystrokes, Parser, DesiredCol

vars == <<State, GameMode, LessonIndex, ExIndex, LevelIndex,
          Buffer, Cursor, Target, GoalLines, VimMode, Undo,
          Score, TargetsHit, Keystrokes, Parser, DesiredCol>>

----------------------------------------------------------------------------
(* Bounds of the model *)

\* most counted keystrokes per target or edit exercise
MaxKeystrokes == 3

----------------------------------------------------------------------------
(* Strings and small helpers *)

Min(a, b) == IF a < b THEN a ELSE b

Max(a, b) == IF a > b THEN a ELSE b

abs(x) == IF x < 0 THEN -x ELSE x

\* line[i] for a zero-based i
At(line, i) == line[i + 1]

\* line[lo:hi] for zero-based lo, hi
Slice(line, lo, hi) == SubSeq(line, lo + 1, hi)

\* lines[:row] ++ <<l>> ++ lines[row+1:]
SetLine(lines, row, l) == [lines EXCEPT ![row + 1] = l]

Pos(r, c) == [Row |-> r, Col |-> c]

Digits == {"0", "1", "2", "3", "4", "5", "6", "7", "8", "9"}

Letters == {"a", "b", "c", "d", "e", "f", "g", "h", "i", "j", "k", "l", "m",
            "n", "o", "p", "q", "r", "s", "t", "u", "v", "w", "x", "y", "z",
            "A", "F", "G", "O"}

Punct == {".", "$", "^"}

\* every single-character key of the model; all of them are printable
SingleKeys == Letters \cup Digits \cup Punct \cup {" ", "_"}

NamedKeys == {"esc", "enter", "backspace", "ctrl+r", "ctrl+c", "tab", "up"}

AllKeys == SingleKeys \cup NamedKeys

\* int(ch - '0')
DigitVal(ch) ==
    CASE ch = "0" -> 0 [] ch = "1" -> 1 [] ch = "2" -> 2 [] ch = "3" -> 3
      [] ch = "4" -> 4 [] ch = "5" -> 5 [] ch = "6" -> 6 [] ch = "7" -> 7
      [] ch = "8" -> 8 [] ch = "9" -> 9

\* a len(key) == 1 test that every key passes
IsSingleAlways(key) == key = key

\* len(key) == 1
IsSingle(key) == key \in SingleKeys

\* unicode.IsPrint on the single-byte keys of the model
IsPrint(ch) == ch \in SingleKeys


\* an isWordChar that takes every non-blank character for a word character
isWordCharOrPunct(ch) == ch # " "

isWordChar(ch) == ch \in Letters \cup Digits \cup {"_"}

----------------------------------------------------------------------------
(* Buffer primitives: each returns the new lines and the new cursor *)

BufRes(lines, pos) == [Lines |-> lines, Pos |-> pos]


\* a DeleteChar that returns the column it was given
DeleteCharNotClamping(lines, row, col) ==
    IF row < 0 \/ row >= Len(lines) THEN BufRes(lines, Pos(row, col))
    ELSE LET line == At(lines, row) IN
      IF Len(line) = 0 \/ col < 0 \/ col >= Len(line) THEN BufRes(lines, Pos(row, col))
      ELSE BufRes(SetLine(lines, row,
                    Slice(line, 0, col) \o Slice(line, col + 1, Len(line))),
                  Pos(row, col))

DeleteChar(lines, row, col) ==
    IF row < 0 \/ row >= Len(lines) THEN BufRes(lines, Pos(row, col))
    ELSE LET line == At(lines, row) IN
      IF Len(line) = 0 \/ col < 0 \/ col >= Len(line)
      THEN BufRes(lines, Pos(row, col))
      ELSE LET nl     == Slice(line, 0, col) \o Slice(line, col + 1, Len(line))
               maxCol == Max(Len(nl) - 1, 0)
           IN BufRes(SetLine(lines, row, nl),
                     Pos(row, IF col > maxCol THEN maxCol ELSE col))

ReplaceChar(lines, row, col, ch) ==
    IF row < 0 \/ row >= Len(lines) THEN BufRes(lines, Pos(row, col))
    ELSE LET line == At(lines, row) IN
      IF col < 0 \/ col >= Len(line) THEN BufRes(lines, Pos(row, col))
      ELSE BufRes(SetLine(lines, row,
                    Slice(line, 0, col) \o <<ch>> \o Slice(line, col + 1, Len(line))),
                  Pos(row, col))


\* an InsertChar that returns the column two past the insertion point
InsertCharSkipping(lines, row, col, ch) ==
    IF row < 0 \/ row >= Len(lines) THEN BufRes(lines, Pos(row, col))
    ELSE LET line == At(lines, row)
             c    == Min(Max(col, 0), Len(line))
         IN BufRes(SetLine(lines, row,
                     Slice(line, 0, c) \o <<ch>> \o Slice(line, c, Len(line))),
                   Pos(row, c + 2))

InsertChar(lines, row, col, ch) ==
    IF row < 0 \/ row >= Len(lines) THEN BufRes(lines, Pos(row, col))
    ELSE LET line == At(lines, row)
             c    == Min(Max(col, 0), Len(line))
         IN BufRes(SetLine(lines, row,
                     Slice(line, 0, c) \o <<ch>> \o Slice(line, c, Len(line))),
                   Pos(row, c + 1))



\* a DeleteCharBefore whose join appends to the previous line and keeps line row
DeleteCharBeforeKeepingLine(lines, row, col) ==
    IF row < 0 \/ row >= Len(lines) THEN BufRes(lines, Pos(row, col))
    ELSE IF col > 0
      THEN LET line == At(lines, row)
               c    == Min(col, Len(line))
           IN BufRes(SetLine(lines, row,
                       Slice(line, 0, c - 1) \o Slice(line, c, Len(line))),
                     Pos(row, c - 1))
      ELSE IF row = 0 THEN BufRes(lines, Pos(0, 0))
      ELSE LET prevLen == Len(At(lines, row - 1))
               joined  == At(lines, row - 1) \o At(lines, row)
           IN BufRes(SetLine(lines, row - 1, joined), Pos(row - 1, prevLen))

\* a DeleteCharBefore that removes the first line at (0, 0)
DeleteCharBeforeDroppingFirst(lines, row, col) ==
    IF row < 0 \/ row >= Len(lines) THEN BufRes(lines, Pos(row, col))
    ELSE IF col > 0
      THEN LET line == At(lines, row)
               c    == Min(col, Len(line))
           IN BufRes(SetLine(lines, row,
                       Slice(line, 0, c - 1) \o Slice(line, c, Len(line))),
                     Pos(row, c - 1))
      ELSE IF row = 0 THEN BufRes(Slice(lines, 1, Len(lines)), Pos(0, 0))
      ELSE LET prevLen == Len(At(lines, row - 1))
               joined  == At(lines, row - 1) \o At(lines, row)
           IN BufRes(Slice(SetLine(lines, row - 1, joined), 0, row)
                       \o Slice(lines, row + 1, Len(lines)),
                     Pos(row - 1, prevLen))

DeleteCharBefore(lines, row, col) ==
    IF row < 0 \/ row >= Len(lines) THEN BufRes(lines, Pos(row, col))
    ELSE IF col > 0
      THEN LET line == At(lines, row)
               c    == Min(col, Len(line))
           IN BufRes(SetLine(lines, row,
                       Slice(line, 0, c - 1) \o Slice(line, c, Len(line))),
                     Pos(row, c - 1))
      ELSE IF row = 0 THEN BufRes(lines, Pos(0, 0))
      ELSE LET prevLen == Len(At(lines, row - 1))
               joined  == At(lines, row - 1) \o At(lines, row)
           IN BufRes(Slice(SetLine(lines, row - 1, joined), 0, row)
                       \o Slice(lines, row + 1, Len(lines)),
                     Pos(row - 1, prevLen))


\* a SplitLine that returns the cursor on the line it split
SplitLineStaying(lines, row, col) ==
    IF row < 0 \/ row >= Len(lines) THEN BufRes(lines, Pos(row, col))
    ELSE LET line   == At(lines, row)
             c      == Min(Max(col, 0), Len(line))
             before == Slice(line, 0, c)
             after  == Slice(line, c, Len(line))
         IN BufRes(Slice(lines, 0, row) \o <<before, after>>
                     \o Slice(lines, row + 1, Len(lines)),
                   Pos(row, c))

SplitLine(lines, row, col) ==
    IF row < 0 \/ row >= Len(lines) THEN BufRes(lines, Pos(row, col))
    ELSE LET line   == At(lines, row)
             c      == Min(Max(col, 0), Len(line))
             before == Slice(line, 0, c)
             after  == Slice(line, c, Len(line))
         IN BufRes(Slice(lines, 0, row) \o <<before, after>>
                     \o Slice(lines, row + 1, Len(lines)),
                   Pos(row + 1, 0))


\* an InsertLine that puts the new line at the end of the buffer
InsertLineAtEnd(lines, afterRow) ==
    LET r0 == Max(afterRow, 0)
        r  == IF r0 >= Len(lines) THEN Len(lines) - 1 ELSE r0
    IN BufRes(lines \o << <<>> >>, Pos(r + 1, 0))

InsertLine(lines, afterRow) ==
    LET r0 == Max(afterRow, 0)
        r  == IF r0 >= Len(lines) THEN Len(lines) - 1 ELSE r0
    IN BufRes(Slice(lines, 0, r + 1) \o << <<>> >> \o Slice(lines, r + 1, Len(lines)),
              Pos(r + 1, 0))

InsertLineAbove(lines, beforeRow) ==
    LET r == Min(Max(beforeRow, 0), Len(lines))
    IN BufRes(Slice(lines, 0, r) \o << <<>> >> \o Slice(lines, r, Len(lines)),
              Pos(r, 0))

----------------------------------------------------------------------------
(* UndoStack: Past and Future are sequences of entries, top at the end *)

UndoEntry(lines, pos) == [Lines |-> lines, CursorPos |-> pos]

\* a Save that pushes the snapshot and keeps Future
SaveKeepingFuture(u, lines, pos) ==
    [u EXCEPT !.Past = Append(u.Past, UndoEntry(lines, pos))]

Save(u, lines, pos) ==
    [Past |-> Append(u.Past, UndoEntry(lines, pos)), Future |-> <<>>]

\* Undo(): (stack, entry, ok)
UndoStackUndo(u) ==
    IF Len(u.Past) = 0
    THEN [u |-> u, entry |-> UndoEntry(<<>>, Pos(0, 0)), ok |-> FALSE]
    ELSE [u     |-> [u EXCEPT !.Past = Slice(u.Past, 0, Len(u.Past) - 1)],
          entry |-> At(u.Past, Len(u.Past) - 1),
          ok    |-> TRUE]

\* Redo(): (stack, entry, ok)
UndoStackRedo(u) ==
    IF Len(u.Future) = 0
    THEN [u |-> u, entry |-> UndoEntry(<<>>, Pos(0, 0)), ok |-> FALSE]
    ELSE [u     |-> [u EXCEPT !.Future = Slice(u.Future, 0, Len(u.Future) - 1)],
          entry |-> At(u.Future, Len(u.Future) - 1),
          ok    |-> TRUE]

PushFuture(u, lines, pos) ==
    [u EXCEPT !.Future = Append(u.Future, UndoEntry(lines, pos))]

\* a PushPast that clears Future as Save does
PushPastClearing(u, lines, pos) ==
    [Past |-> Append(u.Past, UndoEntry(lines, pos)), Future |-> <<>>]

PushPast(u, lines, pos) ==
    [u EXCEPT !.Past = Append(u.Past, UndoEntry(lines, pos))]

\* a reset that leaves one stale snapshot in Past
UndoStackStale == [Past |-> <<UndoEntry(<<>>, Pos(0, 0))>>, Future |-> <<>>]

UndoStackReset == [Past |-> <<>>, Future |-> <<>>]

----------------------------------------------------------------------------
(* InputParser *)

ParseResult(motion, action, char, consumed, count, enterMode) ==
    [Motion |-> motion, Action |-> action, Char |-> char,
     Consumed |-> consumed, Count |-> count, EnterMode |-> enterMode]

\* ParseResult{}: every field at its zero value
ZeroResult == ParseResult("MotionNone", "ActionNone", "", FALSE, 0, "ModeNormal")

\* ParseResult{Consumed: true}
ConsumedOnly == [ZeroResult EXCEPT !.Consumed = TRUE]

MotionResult(motion, char, count) ==
    ParseResult(motion, "ActionMotion", char, TRUE, count, "ModeNormal")

EnterInsertResult(action) ==
    ParseResult("MotionNone", action, "", TRUE, 0, "ModeInsert")

\* Feed returns the parser after the key and the ParseResult
Fed(p, r) == [p |-> p, r |-> r]


\* a feedInsert that accumulates digits into Count as Normal mode does
feedInsertAccumulating(p, key) ==
    CASE key = "esc" ->
           Fed([p EXCEPT !.Mode = "ModeNormal"],
               [ConsumedOnly EXCEPT !.Action = "ActionExitInsert"])
      [] key = "enter" ->
           Fed(p, [ConsumedOnly EXCEPT !.Action = "ActionInsertNewline"])
      [] key = "backspace" ->
           Fed(p, [ConsumedOnly EXCEPT !.Action = "ActionInsertBackspace"])
      [] key \in Digits ->
           Fed([p EXCEPT !.Count = DigitVal(key)], ConsumedOnly)
      [] OTHER ->
           IF IsSingle(key) /\ IsPrint(key)
           THEN Fed(p, [ConsumedOnly EXCEPT !.Action = "ActionInsertChar",
                                            !.Char = key])
           ELSE Fed(p, ConsumedOnly)

feedInsert(p, key) ==
    CASE key = "esc" ->
           Fed([p EXCEPT !.Mode = "ModeNormal"],
               [ConsumedOnly EXCEPT !.Action = "ActionExitInsert"])
      [] key = "enter" ->
           Fed(p, [ConsumedOnly EXCEPT !.Action = "ActionInsertNewline"])
      [] key = "backspace" ->
           Fed(p, [ConsumedOnly EXCEPT !.Action = "ActionInsertBackspace"])
      [] OTHER ->
           IF IsSingle(key) /\ IsPrint(key)
           THEN Fed(p, [ConsumedOnly EXCEPT !.Action = "ActionInsertChar",
                                            !.Char = key])
           ELSE Fed(p, ConsumedOnly)

\* the accumulated count after a digit, capped
CountCap == 99

\* an AddDigit that caps one too late
AddDigitCappedLate(count, ch) ==
    LET c == count * 10 + DigitVal(ch) IN IF c > 100 THEN 100 ELSE c

AddDigit(count, ch) ==
    LET c == count * 10 + DigitVal(ch) IN IF c > CountCap THEN CountCap ELSE c

\* a switch on ch whose default case leaves the count in the parser
feedReadyKeyKeepingCount(p, ch, count) ==
    LET q == [p EXCEPT !.Count = 0] IN
    CASE ch = "h" -> Fed(q, MotionResult("MotionH", "", count))
      [] ch = "j" -> Fed(q, MotionResult("MotionJ", "", count))
      [] ch = "k" -> Fed(q, MotionResult("MotionK", "", count))
      [] ch = "l" -> Fed(q, MotionResult("MotionL", "", count))
      [] ch = "w" -> Fed(q, MotionResult("MotionW", "", count))
      [] ch = "b" -> Fed(q, MotionResult("MotionB", "", count))
      [] ch = "e" -> Fed(q, MotionResult("MotionE", "", count))
      [] ch = "0" -> Fed(q, MotionResult("MotionZero", "", count))
      [] ch = "$" -> Fed(q, MotionResult("MotionDollar", "", count))
      [] ch = "^" -> Fed(q, MotionResult("MotionCaret", "", count))
      [] ch = "G" -> Fed(q, MotionResult("MotionBigG", "", count))
      [] ch = "g" -> Fed([q EXCEPT !.State = "InputPendingG"], ConsumedOnly)
      [] ch = "f" -> Fed([q EXCEPT !.State = "InputPendingF"], ConsumedOnly)
      [] ch = "F" -> Fed([q EXCEPT !.State = "InputPendingBigF"], ConsumedOnly)
      [] ch = "x" -> Fed(q, [ConsumedOnly EXCEPT !.Action = "ActionDeleteChar",
                                                 !.Count = count])
      [] ch = "r" -> Fed([q EXCEPT !.State = "InputPendingR"], ConsumedOnly)
      [] ch = "i" -> Fed([q EXCEPT !.Mode = "ModeInsert"],
                         EnterInsertResult("ActionInsertBefore"))
      [] ch = "a" -> Fed([q EXCEPT !.Mode = "ModeInsert"],
                         EnterInsertResult("ActionInsertAfter"))
      [] ch = "A" -> Fed([q EXCEPT !.Mode = "ModeInsert"],
                         EnterInsertResult("ActionAppendEOL"))
      [] ch = "o" -> Fed([q EXCEPT !.Mode = "ModeInsert"],
                         EnterInsertResult("ActionOpenBelow"))
      [] ch = "O" -> Fed([q EXCEPT !.Mode = "ModeInsert"],
                         EnterInsertResult("ActionOpenAbove"))
      [] ch = "u" -> Fed(q, [ConsumedOnly EXCEPT !.Action = "ActionUndo"])
      [] OTHER    -> Fed(p, ZeroResult)

\* the switch on ch in the Ready state, after the count has been consumed
feedReadyKey(p, ch, count) ==
    LET q == [p EXCEPT !.Count = 0] IN
    CASE ch = "h" -> Fed(q, MotionResult("MotionH", "", count))
      [] ch = "j" -> Fed(q, MotionResult("MotionJ", "", count))
      [] ch = "k" -> Fed(q, MotionResult("MotionK", "", count))
      [] ch = "l" -> Fed(q, MotionResult("MotionL", "", count))
      [] ch = "w" -> Fed(q, MotionResult("MotionW", "", count))
      [] ch = "b" -> Fed(q, MotionResult("MotionB", "", count))
      [] ch = "e" -> Fed(q, MotionResult("MotionE", "", count))
      [] ch = "0" -> Fed(q, MotionResult("MotionZero", "", count))
      [] ch = "$" -> Fed(q, MotionResult("MotionDollar", "", count))
      [] ch = "^" -> Fed(q, MotionResult("MotionCaret", "", count))
      [] ch = "G" -> Fed(q, MotionResult("MotionBigG", "", count))
      [] ch = "g" -> Fed([q EXCEPT !.State = "InputPendingG"], ConsumedOnly)
      [] ch = "f" -> Fed([q EXCEPT !.State = "InputPendingF"], ConsumedOnly)
      [] ch = "F" -> Fed([q EXCEPT !.State = "InputPendingBigF"], ConsumedOnly)
      [] ch = "x" -> Fed(q, [ConsumedOnly EXCEPT !.Action = "ActionDeleteChar",
                                                 !.Count = count])
      [] ch = "r" -> Fed([q EXCEPT !.State = "InputPendingR"], ConsumedOnly)
      [] ch = "i" -> Fed([q EXCEPT !.Mode = "ModeInsert"],
                         EnterInsertResult("ActionInsertBefore"))
      [] ch = "a" -> Fed([q EXCEPT !.Mode = "ModeInsert"],
                         EnterInsertResult("ActionInsertAfter"))
      [] ch = "A" -> Fed([q EXCEPT !.Mode = "ModeInsert"],
                         EnterInsertResult("ActionAppendEOL"))
      [] ch = "o" -> Fed([q EXCEPT !.Mode = "ModeInsert"],
                         EnterInsertResult("ActionOpenBelow"))
      [] ch = "O" -> Fed([q EXCEPT !.Mode = "ModeInsert"],
                         EnterInsertResult("ActionOpenAbove"))
      [] ch = "u" -> Fed(q, [ConsumedOnly EXCEPT !.Action = "ActionUndo"])
      [] OTHER    -> Fed(q, ZeroResult)

\* a feedNormal that recognises ctrl+r before it looks at the pending state
feedNormalRedoFirst(p, key) ==
    IF key = "ctrl+r" THEN
        Fed([p EXCEPT !.State = "InputReady", !.Count = 0],
            [ConsumedOnly EXCEPT !.Action = "ActionRedo"])
    ELSE IF p.State = "InputPendingR" THEN
        LET q == [p EXCEPT !.State = "InputReady", !.Count = 0] IN
        IF IsSingle(key) /\ IsPrint(key)
        THEN Fed(q, [ConsumedOnly EXCEPT !.Action = "ActionReplaceChar",
                                         !.Char = key, !.Count = p.Count])
        ELSE Fed(q, ConsumedOnly)
    ELSE IF ~IsSingle(key) THEN
        Fed([p EXCEPT !.State = "InputReady", !.Count = 0], ZeroResult)
    ELSE IF p.State = "InputPendingG" THEN
        LET q == [p EXCEPT !.State = "InputReady", !.Count = 0] IN
        IF key = "g" THEN Fed(q, MotionResult("MotionGG", "", p.Count))
        ELSE Fed(q, ConsumedOnly)
    ELSE IF p.State = "InputPendingF" THEN
        Fed([p EXCEPT !.State = "InputReady", !.FChar = key, !.Count = 0],
            MotionResult("MotionFChar", key, p.Count))
    ELSE IF p.State = "InputPendingBigF" THEN
        Fed([p EXCEPT !.State = "InputReady", !.FChar = key, !.Count = 0],
            MotionResult("MotionBigFChar", key, p.Count))
    ELSE IF key \in Digits \ {"0"} /\ p.Count = 0 THEN
        Fed([p EXCEPT !.Count = DigitVal(key)], ConsumedOnly)
    ELSE IF key \in Digits /\ p.Count > 0 THEN
        Fed([p EXCEPT !.Count = AddDigit(p.Count, key)], ConsumedOnly)
    ELSE feedReadyKey(p, key, p.Count)

feedNormal(p, key) ==
    IF p.State = "InputPendingR" THEN
        LET q == [p EXCEPT !.State = "InputReady", !.Count = 0] IN
        IF IsSingle(key) /\ IsPrint(key)
        THEN Fed(q, [ConsumedOnly EXCEPT !.Action = "ActionReplaceChar",
                                         !.Char = key, !.Count = p.Count])
        ELSE Fed(q, ConsumedOnly)
    ELSE IF key = "ctrl+r" THEN
        Fed([p EXCEPT !.State = "InputReady", !.Count = 0],
            [ConsumedOnly EXCEPT !.Action = "ActionRedo"])
    ELSE IF ~IsSingle(key) THEN
        Fed([p EXCEPT !.State = "InputReady", !.Count = 0], ZeroResult)
    ELSE IF p.State = "InputPendingG" THEN
        LET q == [p EXCEPT !.State = "InputReady", !.Count = 0] IN
        IF key = "g" THEN Fed(q, MotionResult("MotionGG", "", p.Count))
        ELSE Fed(q, ConsumedOnly)
    ELSE IF p.State = "InputPendingF" THEN
        Fed([p EXCEPT !.State = "InputReady", !.FChar = key, !.Count = 0],
            MotionResult("MotionFChar", key, p.Count))
    ELSE IF p.State = "InputPendingBigF" THEN
        Fed([p EXCEPT !.State = "InputReady", !.FChar = key, !.Count = 0],
            MotionResult("MotionBigFChar", key, p.Count))
    ELSE IF key \in Digits \ {"0"} /\ p.Count = 0 THEN
        Fed([p EXCEPT !.Count = DigitVal(key)], ConsumedOnly)
    ELSE IF key \in Digits /\ p.Count > 0 THEN
        Fed([p EXCEPT !.Count = AddDigit(p.Count, key)], ConsumedOnly)
    ELSE feedReadyKey(p, key, p.Count)

Feed(p, key) ==
    IF p.Mode = "ModeInsert" THEN feedInsert(p, key) ELSE feedNormal(p, key)


\* a Reset that leaves a count behind
InputParserResetKeepingCount ==
    [Mode |-> "ModeNormal", State |-> "InputReady", FChar |-> "", Count |-> 2]

InputParserReset ==
    [Mode |-> "ModeNormal", State |-> "InputReady", FChar |-> "", Count |-> 0]

----------------------------------------------------------------------------
(* Motion engine *)

\* for col < len(line) && P(line[col]) { col++ }
SkipWhile(line, col, P(_)) ==
    IF col >= Len(line) THEN col
    ELSE LET stops == {c \in col..Len(line) : c = Len(line) \/ ~P(At(line, c))}
         IN CHOOSE c \in stops : \A d \in stops : c <= d

\* for col > 0 && P(line[col]) { col-- }
BackWhile(line, col, P(_)) ==
    IF col <= 0 THEN col
    ELSE LET stops == {c \in 0..col : c = 0 \/ ~P(At(line, c))}
         IN CHOOSE c \in stops : \A d \in stops : c >= d

\* for col > 0 && P(line[col-1]) { col-- }
BackWhilePrev(line, col, P(_)) ==
    IF col <= 0 THEN col
    ELSE LET stops == {c \in 0..col : c = 0 \/ ~P(At(line, c - 1))}
         IN CHOOSE c \in stops : \A d \in stops : c >= d

IsSpaceCh(ch) == ch = " "

IsPunctCh(ch) == ~isWordChar(ch) /\ ch # " "


\* a clamp that admits the column one past the last character
clampToLen(lines, p) ==
    LET row    == IF p.Row < 0 THEN 0
                  ELSE IF p.Row >= Len(lines) THEN Len(lines) - 1 ELSE p.Row
        maxCol == Len(At(lines, row))
        col    == IF p.Col < 0 THEN 0
                  ELSE IF p.Col > maxCol THEN maxCol ELSE p.Col
    IN Pos(row, col)

clamp(lines, p) ==
    LET row    == IF p.Row < 0 THEN 0
                  ELSE IF p.Row >= Len(lines) THEN Len(lines) - 1 ELSE p.Row
        maxCol == Max(Len(At(lines, row)) - 1, 0)
        col    == IF p.Col < 0 THEN 0
                  ELSE IF p.Col > maxCol THEN maxCol ELSE p.Col
    IN Pos(row, col)

moveWord(lines, pos) ==
    LET row  == pos.Row
        col  == pos.Col
        line == At(lines, row)
    IN
    IF col >= Len(line) THEN
        IF row + 1 < Len(lines)
        THEN LET c == SkipWhile(At(lines, row + 1), 0, IsSpaceCh)
             IN IF c < Len(At(lines, row + 1)) THEN Pos(row + 1, c) ELSE pos
        ELSE pos
    ELSE
        LET startIsSpace == At(line, col) = " "
            c1 == IF startIsSpace THEN SkipWhile(line, col, IsSpaceCh)
                  ELSE IF isWordChar(At(line, col))
                       THEN SkipWhile(line, col, isWordChar)
                       ELSE SkipWhile(line, col, IsPunctCh)
            c2 == SkipWhile(line, c1, IsSpaceCh)
        IN
        IF startIsSpace /\ c1 < Len(line) THEN Pos(row, c1)
        ELSE IF c2 < Len(line) THEN Pos(row, c2)
        ELSE IF row + 1 < Len(lines)
             THEN Pos(row + 1, SkipWhile(At(lines, row + 1), 0, IsSpaceCh))
        ELSE IF Len(line) > 0 THEN Pos(row, Len(line) - 1)
        ELSE Pos(row, 0)

\* the tail of moveWordBack once row and col are settled
wordBackFrom(lines, row, col0) ==
    LET line == At(lines, row)
        col  == BackWhile(line, col0, IsSpaceCh)
    IN
    IF col = 0 THEN Pos(row, 0)
    ELSE IF isWordChar(At(line, col))
         THEN Pos(row, BackWhilePrev(line, col, isWordChar))
    ELSE IF At(line, col) # " "
         THEN Pos(row, BackWhilePrev(line, col, IsPunctCh))
    ELSE Pos(row, col)

moveWordBack(lines, pos) ==
    IF pos.Col = 0 THEN
        IF pos.Row > 0
        THEN LET line == At(lines, pos.Row - 1) IN
             IF Len(line) > 0
             THEN wordBackFrom(lines, pos.Row - 1, Len(line) - 1)
             ELSE Pos(pos.Row - 1, 0)
        ELSE Pos(0, 0)
    ELSE wordBackFrom(lines, pos.Row, pos.Col - 1)

\* the tail of moveWordEnd: advance to the end of the run under (row, col)
wordEndAt(lines, row, col) ==
    LET line == At(lines, row) IN
    IF col < Len(line) /\ isWordChar(At(line, col))
    THEN Pos(row, SkipWhile(line, col + 1, isWordChar) - 1)
    ELSE IF col < Len(line)
    THEN Pos(row, SkipWhile(line, col + 1, IsPunctCh) - 1)
    ELSE Pos(row, col)

\* moveWordEnd after the first step: skip whitespace, wrap once, find the end
wordEndSkip(lines, row, col0) ==
    LET line == At(lines, row)
        col  == SkipWhile(line, col0, IsSpaceCh)
    IN
    IF col >= Len(line) THEN
        IF row + 1 < Len(lines)
        THEN wordEndAt(lines, row + 1,
                       SkipWhile(At(lines, row + 1), 0, IsSpaceCh))
        ELSE Pos(row, Max(0, Len(line) - 1))
    ELSE wordEndAt(lines, row, col)

moveWordEnd(lines, pos) ==
    LET line == At(lines, pos.Row)
        col  == pos.Col + 1
    IN
    IF col >= Len(line) THEN
        IF pos.Row + 1 < Len(lines)
        THEN wordEndSkip(lines, pos.Row + 1, 0)
        ELSE Pos(pos.Row, Max(0, Len(line) - 1))
    ELSE wordEndSkip(lines, pos.Row, col)


\* a findCharForward whose search starts on the cursor's own column
findCharForwardFromCursor(lines, pos, ch) ==
    LET line == At(lines, pos.Row)
        hits == {i \in pos.Col..(Len(line) - 1) : At(line, i) = ch}
    IN IF hits = {} THEN pos
       ELSE Pos(pos.Row, CHOOSE i \in hits : \A j \in hits : i <= j)

findCharForward(lines, pos, ch) ==
    LET line == At(lines, pos.Row)
        hits == {i \in (pos.Col + 1)..(Len(line) - 1) : At(line, i) = ch}
    IN IF hits = {} THEN pos
       ELSE Pos(pos.Row, CHOOSE i \in hits : \A j \in hits : i <= j)

findCharBackward(lines, pos, ch) ==
    LET line == At(lines, pos.Row)
        hits == {i \in 0..(pos.Col - 1) : At(line, i) = ch}
    IN IF hits = {} THEN pos
       ELSE Pos(pos.Row, CHOOSE i \in hits : \A j \in hits : i >= j)

ApplyMotion(lines, pos, motion, char) ==
    IF Len(lines) = 0 THEN pos
    ELSE CASE motion = "MotionH" -> clamp(lines, Pos(pos.Row, pos.Col - 1))
           [] motion = "MotionL" -> clamp(lines, Pos(pos.Row, pos.Col + 1))
           [] motion = "MotionJ" -> clamp(lines, Pos(pos.Row + 1, pos.Col))
           [] motion = "MotionK" -> clamp(lines, Pos(pos.Row - 1, pos.Col))
           [] motion = "MotionZero" -> clamp(lines, Pos(pos.Row, 0))
           [] motion = "MotionDollar" ->
                LET line == At(lines, pos.Row) IN
                Pos(pos.Row, IF Len(line) > 0 THEN Len(line) - 1 ELSE 0)
           [] motion = "MotionCaret" ->
                LET line == At(lines, pos.Row)
                    c    == SkipWhile(line, 0, IsSpaceCh)
                IN Pos(pos.Row, IF c < Len(line) THEN c ELSE 0)
           [] motion = "MotionGG" -> clamp(lines, Pos(0, 0))
           [] motion = "MotionBigG" -> clamp(lines, Pos(Len(lines) - 1, 0))
           [] motion = "MotionW" -> moveWord(lines, pos)
           [] motion = "MotionB" -> moveWordBack(lines, pos)
           [] motion = "MotionE" -> moveWordEnd(lines, pos)
           [] motion = "MotionFChar" -> findCharForward(lines, pos, char)
           [] motion = "MotionBigFChar" -> findCharBackward(lines, pos, char)
           [] OTHER -> clamp(lines, pos)

\* the candidate positions GenerateTarget draws from with rand.Intn
GenerateTarget(lines, cursor, minDist) ==
    LET cells == UNION {{Pos(r, c) : c \in {i \in 0..(Len(At(lines, r)) - 1) :
                                              At(At(lines, r), i) # " "}} :
                        r \in 0..(Len(lines) - 1)}
        far   == {p \in cells :
                    abs(p.Row - cursor.Row) + abs(p.Col - cursor.Col) >= minDist}
    IN IF far # {} THEN far
       ELSE IF cells # {} THEN cells
       ELSE {Pos(0, 0)}

----------------------------------------------------------------------------
(* Scoring *)

ComputeMedal(actual) ==
    IF actual < 4 THEN "MedalDiamond"
    ELSE IF actual < 6 THEN "MedalGold"
    ELSE IF actual < 8 THEN "MedalSilver"
    ELSE "MedalBronze"

ScoreForMedal(medal) ==
    CASE medal = "MedalDiamond" -> 200
      [] medal = "MedalGold" -> 150
      [] medal = "MedalSilver" -> 100
      [] medal = "MedalBronze" -> 50
      [] OTHER -> 0

----------------------------------------------------------------------------
(* Exercise tables: small stand-ins for the lesson and level content *)

Exercise(type, init, goal, start, numTargets) ==
    [Type |-> type, InitBuffer |-> init, GoalBuffer |-> goal,
     StartCursor |-> start, NumTargets |-> numTargets]

\* "a b" / "" / " c."
MotionText == << <<"a", " ", "b">>, <<>>, <<" ", "c", ".">> >>

AllLessons ==
    << [Exercises |-> << Exercise("ExerciseMotion", MotionText, <<>>, Pos(0, 0), 2),
                         Exercise("ExerciseEdit", << <<"a", "a", "b">> >>,
                                  << <<"a", "b">> >>, Pos(0, 1), 0) >>] >>

AllLevels ==
    << [Exercises |-> << Exercise("ExerciseMotion", MotionText, <<>>, Pos(0, 0), 1),
                         Exercise("ExerciseEdit", << <<"a">>, <<" ", "b">> >>,
                                  << <<"a", " ", "b">> >>, Pos(0, 0), 0) >>] >>


----------------------------------------------------------------------------
(* The session: Model is passed by value to every handler and returned.    *)
(* A handler that calls GenerateTarget returns the set of Models the       *)
(* random draw can produce; the others return one Model.                   *)

M == [State |-> State, GameMode |-> GameMode, LessonIndex |-> LessonIndex,
      ExIndex |-> ExIndex, LevelIndex |-> LevelIndex, Buffer |-> Buffer,
      Cursor |-> Cursor, Target |-> Target, GoalLines |-> GoalLines,
      VimMode |-> VimMode, Undo |-> Undo, Score |-> Score,
      TargetsHit |-> TargetsHit, Keystrokes |-> Keystrokes,
      Parser |-> Parser, DesiredCol |-> DesiredCol]

NewModel ==
    [State |-> "StateMenu", GameMode |-> "GameModeTutorial", LessonIndex |-> 0,
     ExIndex |-> 0, LevelIndex |-> 0, Buffer |-> <<>>, Cursor |-> Pos(0, 0),
     Target |-> Pos(0, 0), GoalLines |-> <<>>, VimMode |-> "ModeNormal",
     Undo |-> UndoStackReset, Score |-> 0, TargetsHit |-> 0, Keystrokes |-> 0,
     Parser |-> InputParserReset, DesiredCol |-> 0]

\* the body shared by startExercise and startChallengeLevel
startWith(m, ex) ==
    LET m1 == [m EXCEPT !.Buffer = ex.InitBuffer,
                        !.Cursor = ex.StartCursor,
                        !.DesiredCol = ex.StartCursor.Col,
                        !.Keystrokes = 0,
                        !.VimMode = "ModeNormal",
                        !.Parser = InputParserReset,
                        !.Undo = UndoStackReset]
    IN IF ex.Type = "ExerciseMotion"
       THEN {[m1 EXCEPT !.GoalLines = <<>>, !.TargetsHit = 0, !.Target = t] :
               t \in GenerateTarget(m1.Buffer, m1.Cursor, 3)}
       ELSE {[m1 EXCEPT !.GoalLines = ex.GoalBuffer, !.Target = Pos(-1, -1)]}

startChallengeLevel(m) ==
    startWith(m, At(At(AllLevels, m.LevelIndex).Exercises, m.ExIndex))

startExercise(m) ==
    startWith(m, At(At(AllLessons, m.LessonIndex).Exercises, m.ExIndex))


\* a checkGoalReached that compares the number of lines only
checkGoalReachedByLength(m) ==
    IF m.GoalLines = <<>> THEN m
    ELSE IF Len(m.Buffer) # Len(m.GoalLines) THEN m
    ELSE [m EXCEPT !.State = "StateExerciseComplete"]

checkGoalReached(m) ==
    IF m.GoalLines = <<>> THEN m
    ELSE IF Len(m.Buffer) # Len(m.GoalLines) THEN m
    ELSE IF \E i \in 1..Len(m.Buffer) : m.Buffer[i] # m.GoalLines[i] THEN m
    ELSE [m EXCEPT !.State = "StateExerciseComplete"]

handleTargetReached(m) ==
    LET m1 == [m EXCEPT !.Score = @ + ScoreForMedal(ComputeMedal(m.Keystrokes)),
                        !.TargetsHit = @ + 1]
        ex == IF m.GameMode = "GameModeMotionChallenge"
              THEN At(At(AllLevels, m.LevelIndex).Exercises, m.ExIndex)
              ELSE At(At(AllLessons, m.LessonIndex).Exercises, m.ExIndex)
    IN IF m1.TargetsHit >= ex.NumTargets
       THEN {[m1 EXCEPT !.State = "StateExerciseComplete"]}
       ELSE {[m1 EXCEPT !.Keystrokes = 0, !.Target = t] :
               t \in GenerateTarget(m1.Buffer, m1.Cursor, 3)}

\* a loop that applies the motion once whatever the count
RepeatMotionOnce(lines, pos, motion, char, count) ==
    ApplyMotion(lines, pos, motion, char)

RECURSIVE RepeatMotion(_, _, _, _, _)
\* for i := 0; i < count; i++ { pos = ApplyMotion(lines, pos, motion, char) }
\* The count applications are made in two halves, the first evaluated (by the
\* membership test) before the second starts, which keeps evaluation shallow.
RepeatMotion(lines, pos, motion, char, count) ==
    IF count <= 0 THEN pos
    ELSE IF count = 1 THEN ApplyMotion(lines, pos, motion, char)
    ELSE LET half  == count \div 2
             first == RepeatMotion(lines, pos, motion, char, half)
         IN IF first \in {first}
            THEN RepeatMotion(lines, first, motion, char, count - half)
            ELSE pos

\* the curswant block of handleMotion
DesiredColMax == 2147483647



\* a curswant block in which j and k record the clamped column
curswantForgetting(m, motion) ==
    IF motion \in {"MotionJ", "MotionK"}
    THEN LET maxCol == Max(Len(At(m.Buffer, m.Cursor.Row)) - 1, 0)
             col    == IF m.DesiredCol > maxCol THEN maxCol ELSE m.DesiredCol
         IN [m EXCEPT !.Cursor.Col = col, !.DesiredCol = col]
    ELSE IF motion = "MotionDollar" THEN [m EXCEPT !.DesiredCol = DesiredColMax]
    ELSE [m EXCEPT !.DesiredCol = m.Cursor.Col]

\* a curswant block in which $ records the column it reached
curswantAtColumn(m, motion) ==
    IF motion \in {"MotionJ", "MotionK"}
    THEN LET maxCol == Max(Len(At(m.Buffer, m.Cursor.Row)) - 1, 0)
         IN [m EXCEPT !.Cursor.Col = IF m.DesiredCol > maxCol THEN maxCol
                                     ELSE m.DesiredCol]
    ELSE [m EXCEPT !.DesiredCol = m.Cursor.Col]

curswant(m, motion) ==
    IF motion \in {"MotionJ", "MotionK"}
    THEN LET maxCol == Max(Len(At(m.Buffer, m.Cursor.Row)) - 1, 0)
         IN [m EXCEPT !.Cursor.Col = IF m.DesiredCol > maxCol THEN maxCol
                                     ELSE m.DesiredCol]
    ELSE IF motion = "MotionDollar" THEN [m EXCEPT !.DesiredCol = DesiredColMax]
    ELSE [m EXCEPT !.DesiredCol = m.Cursor.Col]


\* a handleMotion that takes a snapshot as the edit handlers do
handleMotionSaving(m, result) ==
    LET count == IF result.Count = 0 THEN 1 ELSE result.Count
        cur == IF result.Count > 0 /\ result.Motion \in {"MotionGG", "MotionBigG"}
               THEN LET l1 == IF result.Count - 1 >= Len(m.Buffer)
                              THEN Len(m.Buffer) - 1 ELSE result.Count - 1
                    IN Pos(IF l1 < 0 THEN 0 ELSE l1, 0)
               ELSE RepeatMotion(m.Buffer, m.Cursor, result.Motion, result.Char, count)
        m1 == curswant([m EXCEPT !.Keystrokes = @ + 1, !.Cursor = cur,
                                 !.Undo = Save(m.Undo, m.Buffer, m.Cursor)],
                       result.Motion)
    IN IF m1.Target.Row >= 0 /\ m1.Cursor = m1.Target
       THEN handleTargetReached(m1)
       ELSE {m1}

\* a handleMotion without the go-to-line case of gg and G
handleMotionRepeating(m, result) ==
    LET count == IF result.Count = 0 THEN 1 ELSE result.Count
        cur == RepeatMotion(m.Buffer, m.Cursor, result.Motion, result.Char, count)
        m1 == curswant([m EXCEPT !.Keystrokes = @ + 1, !.Cursor = cur], result.Motion)
    IN IF m1.Target.Row >= 0 /\ m1.Cursor = m1.Target
       THEN handleTargetReached(m1)
       ELSE {m1}

handleMotion(m, result) ==
    LET count == IF result.Count = 0 THEN 1 ELSE result.Count
        cur == IF result.Count > 0 /\ result.Motion \in {"MotionGG", "MotionBigG"}
               THEN LET l1 == IF result.Count - 1 >= Len(m.Buffer)
                              THEN Len(m.Buffer) - 1 ELSE result.Count - 1
                    IN Pos(IF l1 < 0 THEN 0 ELSE l1, 0)
               ELSE RepeatMotion(m.Buffer, m.Cursor, result.Motion, result.Char, count)
        m1 == curswant([m EXCEPT !.Keystrokes = @ + 1, !.Cursor = cur], result.Motion)
    IN IF m1.Target.Row >= 0 /\ m1.Cursor = m1.Target
       THEN handleTargetReached(m1)
       ELSE {m1}


\* a handleEnterInsert that moves the cursor for a even at the end of the line
handleEnterInsertPastEnd(m, result) ==
    LET m1   == [m EXCEPT !.Undo = Save(m.Undo, m.Buffer, m.Cursor),
                          !.Keystrokes = @ + 1]
        line == At(m.Buffer, m.Cursor.Row)
        m2   == CASE result.Action = "ActionInsertAfter" ->
                       [m1 EXCEPT !.Cursor.Col = @ + 1]
                  [] result.Action = "ActionAppendEOL" ->
                       [m1 EXCEPT !.Cursor.Col = Len(line)]
                  [] result.Action = "ActionOpenBelow" ->
                       LET res == InsertLine(m.Buffer, m.Cursor.Row)
                       IN [m1 EXCEPT !.Buffer = res.Lines, !.Cursor = res.Pos]
                  [] result.Action = "ActionOpenAbove" ->
                       LET res == InsertLineAbove(m.Buffer, m.Cursor.Row)
                       IN [m1 EXCEPT !.Buffer = res.Lines, !.Cursor = res.Pos]
                  [] OTHER -> m1
    IN [m2 EXCEPT !.VimMode = "ModeInsert", !.Parser.Mode = "ModeInsert"]

handleEnterInsert(m, result) ==
    LET m1   == [m EXCEPT !.Undo = Save(m.Undo, m.Buffer, m.Cursor),
                          !.Keystrokes = @ + 1]
        line == At(m.Buffer, m.Cursor.Row)
        m2   == CASE result.Action = "ActionInsertAfter" ->
                       IF m.Cursor.Col < Len(line)
                       THEN [m1 EXCEPT !.Cursor.Col = @ + 1] ELSE m1
                  [] result.Action = "ActionAppendEOL" ->
                       [m1 EXCEPT !.Cursor.Col = Len(line)]
                  [] result.Action = "ActionOpenBelow" ->
                       LET res == InsertLine(m.Buffer, m.Cursor.Row)
                       IN [m1 EXCEPT !.Buffer = res.Lines, !.Cursor = res.Pos]
                  [] result.Action = "ActionOpenAbove" ->
                       LET res == InsertLineAbove(m.Buffer, m.Cursor.Row)
                       IN [m1 EXCEPT !.Buffer = res.Lines, !.Cursor = res.Pos]
                  [] OTHER -> m1
    IN [m2 EXCEPT !.VimMode = "ModeInsert", !.Parser.Mode = "ModeInsert"]

handleInsertAction(m, result) ==
    LET res == CASE result.Action = "ActionInsertChar" ->
                      InsertChar(m.Buffer, m.Cursor.Row, m.Cursor.Col, result.Char)
                 [] result.Action = "ActionInsertBackspace" ->
                      DeleteCharBefore(m.Buffer, m.Cursor.Row, m.Cursor.Col)
                 [] result.Action = "ActionInsertNewline" ->
                      SplitLine(m.Buffer, m.Cursor.Row, m.Cursor.Col)
                 [] OTHER -> BufRes(m.Buffer, m.Cursor)
    IN [m EXCEPT !.Buffer = res.Lines, !.Cursor = res.Pos]

RECURSIVE RepeatDelete(_, _, _)
\* for i := 0; i < count; i++ { pos = b.DeleteChar(pos.Row, pos.Col) }
\* (made in two halves as in RepeatMotion)
RepeatDelete(lines, pos, count) ==
    IF count <= 0 THEN BufRes(lines, pos)
    ELSE IF count = 1 THEN DeleteChar(lines, pos.Row, pos.Col)
    ELSE LET half  == count \div 2
             first == RepeatDelete(lines, pos, half)
         IN IF first \in {first}
            THEN RepeatDelete(first.Lines, first.Pos, count - half)
            ELSE first


\* a handleDeleteChar that takes the snapshot after the deletion
handleDeleteCharSavingAfter(m, result) ==
    LET count == IF result.Count = 0 THEN 1 ELSE result.Count
        res   == RepeatDelete(m.Buffer, m.Cursor, count)
    IN checkGoalReached([m EXCEPT !.Undo = Save(m.Undo, res.Lines, res.Pos),
                                  !.Keystrokes = @ + 1,
                                  !.Buffer = res.Lines, !.Cursor = res.Pos])

handleDeleteChar(m, result) ==
    LET count == IF result.Count = 0 THEN 1 ELSE result.Count
        res   == RepeatDelete(m.Buffer, m.Cursor, count)
    IN checkGoalReached([m EXCEPT !.Undo = Save(m.Undo, m.Buffer, m.Cursor),
                                  !.Keystrokes = @ + 1,
                                  !.Buffer = res.Lines, !.Cursor = res.Pos])

handleReplaceChar(m, result) ==
    LET res == ReplaceChar(m.Buffer, m.Cursor.Row, m.Cursor.Col, result.Char)
    IN checkGoalReached([m EXCEPT !.Undo = Save(m.Undo, m.Buffer, m.Cursor),
                                  !.Keystrokes = @ + 1,
                                  !.Buffer = res.Lines, !.Cursor = res.Pos])

\* a handleUndo that adopts the saved lines and leaves the cursor where it is
handleUndoLinesOnly(m) ==
    LET un == UndoStackUndo(m.Undo) IN
    IF ~un.ok THEN m
    ELSE checkGoalReached([m EXCEPT !.Undo = PushFuture(un.u, m.Buffer, m.Cursor),
                                    !.Buffer = un.entry.Lines])

handleUndo(m) ==
    LET un == UndoStackUndo(m.Undo) IN
    IF ~un.ok THEN m
    ELSE checkGoalReached([m EXCEPT !.Undo = PushFuture(un.u, m.Buffer, m.Cursor),
                                    !.Buffer = un.entry.Lines,
                                    !.Cursor = un.entry.CursorPos,
                                    !.DesiredCol = un.entry.CursorPos.Col])

\* a handleRedo that resets the desired column even when nothing is redone
handleRedoResettingColumn(m) ==
    LET re == UndoStackRedo(m.Undo) IN
    IF ~re.ok THEN [m EXCEPT !.DesiredCol = m.Cursor.Col]
    ELSE checkGoalReached([m EXCEPT !.Undo = PushPast(re.u, m.Buffer, m.Cursor),
                                    !.Buffer = re.entry.Lines,
                                    !.Cursor = re.entry.CursorPos,
                                    !.DesiredCol = re.entry.CursorPos.Col])

handleRedo(m) ==
    LET re == UndoStackRedo(m.Undo) IN
    IF ~re.ok THEN m
    ELSE checkGoalReached([m EXCEPT !.Undo = PushPast(re.u, m.Buffer, m.Cursor),
                                    !.Buffer = re.entry.Lines,
                                    !.Cursor = re.entry.CursorPos,
                                    !.DesiredCol = re.entry.CursorPos.Col])


\* a handleExitInsert that leaves the session's mode as it is
handleExitInsertKeepingMode(m) ==
    checkGoalReached([m EXCEPT !.Cursor.Col = IF @ > 0 THEN @ - 1 ELSE @])

handleExitInsert(m) ==
    checkGoalReached([m EXCEPT !.VimMode = "ModeNormal",
                               !.Cursor.Col = IF @ > 0 THEN @ - 1 ELSE @])


\* a handlePlayingInput that counts a keystroke for a key that is not consumed
handlePlayingInputCounting(m, key) ==
    LET fed    == Feed(m.Parser, key)
        result == fed.r
        m1     == [m EXCEPT !.Parser = fed.p]
    IN
    IF ~result.Consumed THEN {[m1 EXCEPT !.Keystrokes = @ + 1]}
    ELSE IF result.Action \in {"ActionInsertChar", "ActionInsertBackspace",
                               "ActionInsertNewline"}
         THEN {handleInsertAction(m1, result)}
    ELSE IF result.Action = "ActionExitInsert" THEN {handleExitInsert(m1)}
    ELSE IF result.EnterMode = "ModeInsert" THEN {handleEnterInsert(m1, result)}
    ELSE IF result.Action = "ActionDeleteChar" THEN {handleDeleteChar(m1, result)}
    ELSE IF result.Action = "ActionReplaceChar" THEN {handleReplaceChar(m1, result)}
    ELSE IF result.Action = "ActionUndo" THEN {handleUndo(m1)}
    ELSE IF result.Action = "ActionRedo" THEN {handleRedo(m1)}
    ELSE IF result.Action = "ActionMotion" THEN handleMotion(m1, result)
    ELSE IF result.Motion = "MotionNone" /\ result.Action = "ActionNone"
         THEN {[m1 EXCEPT !.Keystrokes = @ + 1]}
    ELSE {m1}

handlePlayingInput(m, key) ==
    LET fed    == Feed(m.Parser, key)
        result == fed.r
        m1     == [m EXCEPT !.Parser = fed.p]
    IN
    IF ~result.Consumed THEN {m1}
    ELSE IF result.Action \in {"ActionInsertChar", "ActionInsertBackspace",
                               "ActionInsertNewline"}
         THEN {handleInsertAction(m1, result)}
    ELSE IF result.Action = "ActionExitInsert" THEN {handleExitInsert(m1)}
    ELSE IF result.EnterMode = "ModeInsert" THEN {handleEnterInsert(m1, result)}
    ELSE IF result.Action = "ActionDeleteChar" THEN {handleDeleteChar(m1, result)}
    ELSE IF result.Action = "ActionReplaceChar" THEN {handleReplaceChar(m1, result)}
    ELSE IF result.Action = "ActionUndo" THEN {handleUndo(m1)}
    ELSE IF result.Action = "ActionRedo" THEN {handleRedo(m1)}
    ELSE IF result.Action = "ActionMotion" THEN handleMotion(m1, result)
    ELSE IF result.Motion = "MotionNone" /\ result.Action = "ActionNone"
         THEN {[m1 EXCEPT !.Keystrokes = @ + 1]}
    ELSE {m1}

handleMenuInput(m, key) ==
    IF key \in {"1", "t", "enter"}
    THEN {[m EXCEPT !.GameMode = "GameModeTutorial", !.LessonIndex = 0,
                    !.ExIndex = 0, !.Score = 0, !.State = "StateLessonIntro"]}
    ELSE IF key \in {"2", "c"}
    THEN startChallengeLevel(
           [m EXCEPT !.GameMode = "GameModeMotionChallenge", !.LevelIndex = 0,
                     !.ExIndex = 0, !.Score = 0, !.State = "StatePlaying"])
    ELSE {m}

handleTutorialMenuInput(m, key) ==
    IF key = "esc" THEN {[m EXCEPT !.State = "StateMenu"]}
    ELSE IF key \in Digits \ {"0"}
    THEN IF DigitVal(key) - 1 < Len(AllLessons)
         THEN {[m EXCEPT !.LessonIndex = DigitVal(key) - 1, !.ExIndex = 0,
                         !.Score = 0, !.State = "StateLessonIntro"]}
         ELSE {m}
    ELSE IF key = "0" /\ Len(AllLessons) >= 10
    THEN {[m EXCEPT !.LessonIndex = 9, !.ExIndex = 0, !.Score = 0,
                    !.State = "StateLessonIntro"]}
    ELSE {m}

\* Update for a tea.KeyMsg; tea.Quit leaves the Model as it is
Update(m, key) ==
    IF key = "ctrl+c" \/ (key = "q" /\ m.State # "StatePlaying") THEN {m}
    ELSE CASE m.State = "StateMenu" -> handleMenuInput(m, key)
           [] m.State = "StateTutorialMenu" -> handleTutorialMenuInput(m, key)
           [] m.State = "StateLessonIntro" ->
                IF key = "enter" THEN startExercise([m EXCEPT !.State = "StatePlaying"])
                ELSE IF key = "esc" THEN {[m EXCEPT !.State = "StateTutorialMenu"]}
                ELSE {m}
           [] m.State = "StatePlaying" ->
                IF key = "esc" /\ m.VimMode = "ModeNormal"
                THEN {[m EXCEPT !.State = IF m.GameMode = "GameModeTutorial"
                                          THEN "StateTutorialMenu" ELSE "StateMenu"]}
                ELSE handlePlayingInput(m, key)
           [] m.State = "StateExerciseComplete" ->
                IF key # "enter" THEN {m}
                ELSE LET m1 == [m EXCEPT !.ExIndex = @ + 1] IN
                     IF m.GameMode = "GameModeMotionChallenge"
                     THEN IF m1.ExIndex >= Len(At(AllLevels, m.LevelIndex).Exercises)
                          THEN {[m1 EXCEPT !.State = "StateLevelComplete"]}
                          ELSE startChallengeLevel([m1 EXCEPT !.State = "StatePlaying"])
                     ELSE IF m1.ExIndex >= Len(At(AllLessons, m.LessonIndex).Exercises)
                          THEN {[m1 EXCEPT !.State = "StateLevelComplete"]}
                          ELSE startExercise([m1 EXCEPT !.State = "StatePlaying"])
           [] m.State = "StateLevelComplete" ->
                IF key # "enter" THEN {m}
                ELSE IF m.GameMode = "GameModeTutorial"
                THEN IF m.LessonIndex + 1 >= Len(AllLessons)
                     THEN {[m EXCEPT !.LessonIndex = @ + 1, !.State = "StateGameOver"]}
                     ELSE {[m EXCEPT !.LessonIndex = @ + 1, !.ExIndex = 0,
                                     !.State = "StateLessonIntro"]}
                ELSE IF m.LevelIndex + 1 >= Len(AllLevels)
                     THEN {[m EXCEPT !.LevelIndex = @ + 1, !.ExIndex = 0,
                                     !.State = "StateGameOver"]}
                     ELSE startChallengeLevel(
                            [m EXCEPT !.LevelIndex = @ + 1, !.ExIndex = 0,
                                      !.State = "StatePlaying"])
           [] m.State = "StateGameOver" ->
                IF key = "enter" THEN {[m EXCEPT !.State = "StateMenu"]} ELSE {m}

----------------------------------------------------------------------------
(* The state machine: one keypress per step *)

SetM(n) ==
    /\ State' = n.State
    /\ GameMode' = n.GameMode
    /\ LessonIndex' = n.LessonIndex
    /\ ExIndex' = n.ExIndex
    /\ LevelIndex' = n.LevelIndex
    /\ Buffer' = n.Buffer
    /\ Cursor' = n.Cursor
    /\ Target' = n.Target
    /\ GoalLines' = n.GoalLines
    /\ VimMode' = n.VimMode
    /\ Undo' = n.Undo
    /\ Score' = n.Score
    /\ TargetsHit' = n.TargetsHit
    /\ Keystrokes' = n.Keystrokes
    /\ Parser' = n.Parser
    /\ DesiredCol' = n.DesiredCol

\* the Models the bounds of the exploration admit
WithinBounds(n) == n.Keystrokes <= MaxKeystrokes

\* the keys the exploration presses: every motion and count in a motion
\* exercise, edits of each kind with one motion in an edit exercise; in
\* insert mode it only deletes and leaves, so that the buffers stay bounded.
\* The properties press every other key from the states reached this way.
NavKeys == {"1", "2", "c", "enter", "esc", "q"}
MotionKeys == {"h", "j", "k", "l", "w", "b", "e", "0", "$", "^", "G", "g", "f", "F"}
EditMoveKeys == {"l"}
CountKeys == {"2", "0"}
EditKeys == {"x", "r", "i", "o"}
HistoryKeys == {"u", "ctrl+r"}
OtherKeys == {"z", "tab", "ctrl+c"}
ArgKeys == {".", "enter"}
AfterGKeys == {"g", "x", "ctrl+r"}
InsertKeys == {"esc", "backspace"}

Press(key) == \E n \in Update(M, key) : WithinBounds(n) /\ SetM(n)

Playing == State = "StatePlaying"

Pending(states) == Playing /\ VimMode = "ModeNormal" /\ Parser.State \in states

Ready == Pending({"InputReady"})

MotionExercise == GoalLines = <<>>

Init ==
    /\ State = NewModel.State
    /\ GameMode = NewModel.GameMode
    /\ LessonIndex = NewModel.LessonIndex
    /\ ExIndex = NewModel.ExIndex
    /\ LevelIndex = NewModel.LevelIndex
    /\ Buffer = NewModel.Buffer
    /\ Cursor = NewModel.Cursor
    /\ Target = NewModel.Target
    /\ GoalLines = NewModel.GoalLines
    /\ VimMode = NewModel.VimMode
    /\ Undo = NewModel.Undo
    /\ Score = NewModel.Score
    /\ TargetsHit = NewModel.TargetsHit
    /\ Keystrokes = NewModel.Keystrokes
    /\ Parser = NewModel.Parser
    /\ DesiredCol = NewModel.DesiredCol

Navigate == ~Playing /\ \E key \in NavKeys : Press(key)

PressMotion ==
    /\ Ready
    /\ \E key \in (IF MotionExercise THEN MotionKeys ELSE EditMoveKeys) : Press(key)

PressDigit == Ready /\ MotionExercise /\ \E key \in CountKeys : Press(key)

PressEdit == Ready /\ ~MotionExercise /\ \E key \in EditKeys : Press(key)

PressHistory == Ready /\ ~MotionExercise /\ \E key \in HistoryKeys : Press(key)

PressOther == Ready /\ \E key \in OtherKeys : Press(key)

PressAfterG == Pending({"InputPendingG"}) /\ \E key \in AfterGKeys : Press(key)

PressArg ==
    /\ Pending({"InputPendingF", "InputPendingBigF", "InputPendingR"})
    /\ \E key \in ArgKeys : Press(key)

TypeInsert == Playing /\ VimMode = "ModeInsert" /\ \E key \in InsertKeys : Press(key)

\* esc in Normal mode leaves play, whatever the parser awaits
LeavePlay == Playing /\ VimMode = "ModeNormal" /\ Press("esc")

Next ==
    \/ Navigate
    \/ PressMotion
    \/ PressDigit
    \/ PressEdit
    \/ PressHistory
    \/ PressOther
    \/ PressAfterG
    \/ PressArg
    \/ TypeInsert

Spec == Init /\ [][Next]_vars

\* The session with play left and resumed: esc in Normal mode is pressed too
NextRestart ==
    \/ Navigate
    \/ PressMotion
    \/ PressDigit
    \/ PressEdit
    \/ PressHistory
    \/ PressOther
    \/ PressAfterG
    \/ PressArg
    \/ TypeInsert
    \/ LeavePlay

SpecRestart == Init /\ [][NextRestart]_vars

\* The parser taken alone: Feed is called with any key, in any order
FeedKey ==
    /\ \E key \in AllKeys : Parser' = Feed(Parser, key).p
    /\ UNCHANGED <<State, GameMode, LessonIndex, ExIndex, LevelIndex, Buffer,
                   Cursor, Target, GoalLines, VimMode, Undo, Score, TargetsHit,
                   Keystrokes, DesiredCol>>

SpecParser == Init /\ [][FeedKey]_vars

\* The motions taken alone: the exercises are played with the motion keys
\* that need no argument, with and without the count 2
MoveKeys == {"h", "j", "k", "l", "w", "b", "e", "0", "$", "^", "G"}

MoveOnly == Ready /\ \E key \in MoveKeys : Press(key)

TypeCount == Ready /\ Parser.Count = 0 /\ Press("2")

NextMotion ==
    \/ Navigate
    \/ MoveOnly
    \/ TypeCount

SpecMotion == Init /\ [][NextMotion]_vars

----------------------------------------------------------------------------
(* Properties.  A property about what a keypress does is stated at every   *)
(* reachable state by pressing the keys from that state with Update.       *)

RECURSIVE RunKeys(_, _)
\* the Models that pressing the keys ks in order can lead to from those in S
RunKeys(S, ks) ==
    IF ks = <<>> THEN S
    ELSE RunKeys(UNION {Update(n, Head(ks)) : n \in S}, Tail(ks))

\* what is typed between the key that enters insert mode and esc
InsertBodies ==
    {<<>>, <<"a">>, <<"backspace">>, <<"enter">>, <<".", "enter", "b">>,
     <<"backspace", "backspace">>}

InsertSessions ==
    {<<k>> \o body \o <<"esc">> : k \in {"i", "a", "A", "o", "O"}, body \in InsertBodies}

\* single edits: x and r{char} with and without a count, insert sessions
SingleEdits ==
    {<<"x">>, <<"2", "x">>, <<"9", "9", "x">>,
     <<"r", "z">>, <<"r", " ">>, <<"3", "r", ".">>} \cup InsertSessions

\* C1 as stated: after any single edit made in Normal mode, u restores the
\* lines and the cursor of before the edit, and ctrl+r after that u restores
\* the lines and the cursor of just before the u
UndoRestoresAnyEdit ==
    Ready =>
      \A ks \in SingleEdits : \A m1 \in RunKeys({M}, ks) :
        \A m2 \in Update(m1, "u") :
          /\ m2.Buffer = Buffer
          /\ m2.Cursor = Cursor
          /\ \A m3 \in Update(m2, "ctrl+r") :
                m3.Buffer = m1.Buffer /\ m3.Cursor = m1.Cursor

\* C1: after any single edit made in Normal mode that leaves the exercise
\* in play (the edit did not produce the goal buffer), u restores the lines
\* and the cursor of before the edit, and ctrl+r after that u restores the
\* lines and the cursor of just before the u
UndoRedoRoundTrip ==
    Ready =>
      \A ks \in SingleEdits : \A m1 \in RunKeys({M}, ks) :
        m1.State = "StatePlaying" =>
          \A m2 \in Update(m1, "u") :
            /\ m2.Buffer = Buffer
            /\ m2.Cursor = Cursor
            /\ \A m3 \in Update(m2, "ctrl+r") :
                  m3.Buffer = m1.Buffer /\ m3.Cursor = m1.Cursor

\* an edit that changed the lines and moved the cursor has just been undone,
\* and ctrl+r is about to bring it back
UndoRedoRoundTripWitness ==
    /\ Ready
    /\ Undo.Future # <<>>
    /\ At(Undo.Future, Len(Undo.Future) - 1).Lines # Buffer
    /\ At(Undo.Future, Len(Undo.Future) - 1).CursorPos # Cursor
    /\ \E m3 \in Update(M, "ctrl+r") : m3.Buffer # Buffer /\ m3.State = "StatePlaying"

\* the keypresses that save a snapshot: x and a completed r{char} with and
\* without a count, and the keys that enter insert mode
EditSavingKeys ==
    {<<"x">>, <<"2", "x">>, <<"r", "z">>, <<"3", "r", ".">>,
     <<"i">>, <<"a">>, <<"A">>, <<"o">>, <<"O">>}

\* keys other than u that may follow an edit before ctrl+r is pressed
KeysBeforeRedo ==
    {<<>>, <<"l">>, <<"k">>, <<"$">>, <<"2">>, <<"g">>, <<"f", "a">>, <<"z">>, <<"enter">>}

\* C2: after every edit-saving keypress (x, a completed r{char}, i/a/A/o/O)
\* Future is empty whatever it held before, and a ctrl+r pressed in Normal
\* mode after the edit (once an insert session is left with esc) and before
\* any u changes nothing of the session: lines, cursor, Past, Future, desired
\* column, game state, mode, score and keystroke counter
EditClearsFuture ==
    Ready =>
      \A ks \in EditSavingKeys : \A m1 \in RunKeys({M}, ks) :
        /\ m1.Undo.Future = <<>>
        /\ \A m2 \in RunKeys({m1}, IF m1.VimMode = "ModeInsert"
                                    THEN <<"esc">> ELSE <<>>) :
             \A between \in KeysBeforeRedo : \A m3 \in RunKeys({m2}, between) :
               /\ m3.Undo.Future = <<>>
               /\ \A m4 \in Update(m3, "ctrl+r") :
                     [m4 EXCEPT !.Parser = m3.Parser] = m3

\* a state with entries in Future, reached by u, from which an edit-saving
\* key is pressed next and empties Future
EditClearsFutureWitness ==
    /\ Ready
    /\ Len(Undo.Future) >= 2
    /\ \E m1 \in RunKeys({M}, <<"x">>) :
          m1.State = "StatePlaying" /\ m1.Buffer # Buffer /\ m1.Undo.Future = <<>>

\* the key pressed k times
Repeat(key, k) == [i \in 1..k |-> key]

\* C3: from a Normal-mode state with at least k entries in Past, k presses of
\* u followed by k presses of ctrl+r restore lines, cursor, Past and Future
\* exactly; a successful u takes one entry off Past and adds one to Future,
\* a successful ctrl+r takes one off Future and adds one to Past, so
\* len(Past)+len(Future) is unchanged by u and ctrl+r
UndoRedoOscillate ==
    Ready =>
      /\ \A k \in 1..Len(Undo.Past) :
           \A n \in RunKeys({M}, Repeat("u", k) \o Repeat("ctrl+r", k)) :
             n.Buffer = Buffer /\ n.Cursor = Cursor /\ n.Undo = Undo
      /\ \A n \in Update(M, "u") :
           /\ Len(n.Undo.Past) + Len(n.Undo.Future) = Len(Undo.Past) + Len(Undo.Future)
           /\ Undo.Past # <<>> =>
                /\ n.Undo.Past = Slice(Undo.Past, 0, Len(Undo.Past) - 1)
                /\ Slice(n.Undo.Future, 0, Len(n.Undo.Future) - 1) = Undo.Future
      /\ \A n \in Update(M, "ctrl+r") :
           /\ Len(n.Undo.Past) + Len(n.Undo.Future) = Len(Undo.Past) + Len(Undo.Future)
           /\ Undo.Future # <<>> =>
                /\ n.Undo.Future = Slice(Undo.Future, 0, Len(Undo.Future) - 1)
                /\ Slice(n.Undo.Past, 0, Len(n.Undo.Past) - 1) = Undo.Past

\* two edits are in Past and one undone edit in Future, all three different
UndoRedoOscillateWitness ==
    /\ Ready
    /\ Len(Undo.Past) >= 2
    /\ Undo.Future # <<>>
    /\ At(Undo.Past, 0).Lines # At(Undo.Past, 1).Lines
    /\ At(Undo.Future, 0).Lines # Buffer

\* the exercise in play
CurrentExercise ==
    IF GameMode = "GameModeMotionChallenge"
    THEN At(At(AllLevels, LevelIndex).Exercises, ExIndex)
    ELSE At(At(AllLessons, LessonIndex).Exercises, ExIndex)

\* the key makes the parser return an edit that saves a snapshot
IsEditSaving(p, key) ==
    LET r == Feed(p, key).r
    IN r.Consumed /\ (r.EnterMode = "ModeInsert"
                       \/ r.Action \in {"ActionDeleteChar", "ActionReplaceChar"})

\* C4: while an exercise is in play every edit-saving action adds one entry
\* to Past and every other key except u and ctrl+r adds none, and in Normal
\* mode pressing u once per entry of Past restores the buffer to the initial
\* lines of the exercise, after which one more u changes nothing
UndoAllRestoresInitial ==
    /\ Playing =>
         \A key \in AllKeys \ {"u", "ctrl+r"} : \A n \in Update(M, key) :
           Len(n.Undo.Past) =
             Len(Undo.Past) + (IF IsEditSaving(Parser, key) THEN 1 ELSE 0)
    /\ Ready =>
         \A m1 \in RunKeys({M}, Repeat("u", Len(Undo.Past))) :
           /\ m1.Buffer = CurrentExercise.InitBuffer
           /\ m1.State = "StatePlaying"
           /\ \A m2 \in Update(m1, "u") : [m2 EXCEPT !.Parser = m1.Parser] = m1

\* three edits were made since the exercise started, with a motion before
\* the last, and none is undone
UndoAllRestoresInitialWitness ==
    /\ Ready
    /\ Len(Undo.Past) = 3
    /\ Undo.Future = <<>>
    /\ Buffer # CurrentExercise.InitBuffer
    /\ At(Undo.Past, 2).Lines # At(Undo.Past, 1).Lines
    /\ At(Undo.Past, 2).CursorPos # Cursor

\* C5: u with an empty Past and ctrl+r with an empty Future are no-ops:
\* Undo()/Redo() return ok=false and lines, cursor, Past, Future, desired
\* column and game state (and every other field of the session but the
\* parser's pending count) are unchanged
EmptyUndoRedoNoOp ==
    Ready =>
      /\ Undo.Past = <<>> =>
           /\ ~UndoStackUndo(Undo).ok
           /\ \A n \in Update(M, "u") : [n EXCEPT !.Parser = Parser] = M
      /\ Undo.Future = <<>> =>
           /\ ~UndoStackRedo(Undo).ok
           /\ \A n \in Update(M, "ctrl+r") : [n EXCEPT !.Parser = Parser] = M

\* both stacks are empty while the desired column differs from the cursor's
\* column, so a no-op must leave it alone
EmptyUndoRedoNoOpWitness ==
    /\ Ready
    /\ Undo.Past = <<>>
    /\ Undo.Future = <<>>
    /\ DesiredCol # Cursor.Col
    /\ Keystrokes > 0

RECURSIVE FeedSeq(_, _)
\* Feed called with each key of ks in order: the parser at the end and the
\* ParseResults in order
FeedSeq(p, ks) ==
    IF ks = <<>> THEN [p |-> p, rs |-> <<>>]
    ELSE LET f    == Feed(p, Head(ks))
             rest == FeedSeq(f.p, Tail(ks))
         IN [p |-> rest.p, rs |-> <<f.r>> \o rest.rs]

RECURSIVE Decimal(_)
\* the decimal value of a string of digit keys
Decimal(ks) ==
    IF ks = <<>> THEN 0
    ELSE Decimal(SubSeq(ks, 1, Len(ks) - 1)) * 10 + DigitVal(ks[Len(ks)])

\* the digit strings of one to three digits that start with 1..9
DigitStrings ==
    {<<d>> \o rest : d \in Digits \ {"0"},
                     rest \in {<<>>} \cup {<<a>> : a \in Digits}
                                    \cup {<<a, b>> : a \in Digits, b \in Digits}}

ParserReady == Parser.Mode = "ModeNormal" /\ Parser.State = "InputReady"

\* C6: Count is within 0..99 in every reachable state of the parser; in
\* Normal/Ready a digit string that starts with 1..9 accumulates to
\* min(decimal value, 99), every digit consumed with no motion and no action;
\* the key 0 pressed when Count is 0 yields MotionZero and no count
CountCappedAt99 ==
    /\ Parser.Count \in 0..99
    /\ ParserReady =>
         \A d \in Digits :
           (Parser.Count > 0 \/ d # "0") =>
             Feed(Parser, d) =
               Fed([Parser EXCEPT !.Count = Min(Parser.Count * 10 + DigitVal(d), 99)],
                   ConsumedOnly)
    /\ (ParserReady /\ Parser.Count = 0) =>
         /\ Feed(Parser, "0") = Fed(Parser, MotionResult("MotionZero", "", 0))
         /\ \A ks \in DigitStrings :
              LET f == FeedSeq(Parser, ks) IN
              /\ f.p = [Parser EXCEPT !.Count = Min(Decimal(ks), 99)]
              /\ \A i \in 1..Len(ks) : f.rs[i] = ConsumedOnly

\* digits have been fed up to the cap, after an f{char}
CountCappedAt99Witness ==
    ParserReady /\ Parser.Count = 99 /\ Parser.FChar # ""

\* the digit strings of the counts 1..99
CountStrings == {ks \in DigitStrings : Len(ks) <= 2}

\* the ParseResult of the last key of ks fed to p
LastResult(p, ks) == FeedSeq(p, ks).rs[Len(ks)]

\* C9: a count typed before a multi-key command is attached to the completed
\* command: for n in 1..99, <digits of n> g g yields MotionGG with Count=n,
\* <digits of n> f c and <digits of n> F c yield MotionFChar/MotionBigFChar
\* with Count=n, and <digits of n> r c yields ReplaceChar with Count=n
CountSavedForPendingCommand ==
    (ParserReady /\ Parser.Count = 0) =>
      \A ks \in CountStrings :
        LET n == Decimal(ks) IN
        /\ LastResult(Parser, ks \o <<"g", "g">>) = MotionResult("MotionGG", "", n)
        /\ \A c \in SingleKeys :
             /\ LastResult(Parser, ks \o <<"f", c>>) = MotionResult("MotionFChar", c, n)
             /\ LastResult(Parser, ks \o <<"F", c>>) = MotionResult("MotionBigFChar", c, n)
             /\ LastResult(Parser, ks \o <<"r", c>>) =
                  [ConsumedOnly EXCEPT !.Action = "ActionReplaceChar",
                                       !.Char = c, !.Count = n]

RECURSIVE PressTrace(_, _, _)
\* the Models after 1, 2, .. n presses of the key from m, one per press (when
\* a press reaches the target the new target is one of those the draw allows)
PressTrace(m, key, n) ==
    IF n <= 0 THEN <<>>
    ELSE IF n = 1 THEN <<CHOOSE m1 \in Update(m, key) : TRUE>>
    ELSE LET half  == n \div 2
             first == PressTrace(m, key, half)
         IN IF first \in {first}
            THEN first \o PressTrace(first[half], key, n - half)
            ELSE first

\* no target was reached in the first k presses of the trace
NoTargetWithin(tr, k) ==
    k = 0 \/ (tr[k].TargetsHit = TargetsHit /\ tr[k].State = "StatePlaying")

CountableMotionKeys == {"h", "j", "k", "l", "w", "b", "e"}

\* C7: for n in 1..99 and a motion key among h j k l w b e, typing the digits
\* of n and the key leaves the cursor where n presses of the key without a
\* count leave it, from the same buffer, cursor and desired column, when no
\* target is reached before the last press
CountedMotionRepeats ==
    (Ready /\ Parser.Count = 0) =>
      \A key \in CountableMotionKeys :
        LET tr == PressTrace(M, key, CountCap) IN
        \A ks \in CountStrings :
          NoTargetWithin(tr, Decimal(ks) - 1) =>
            \A m1 \in RunKeys({M}, ks \o <<key>>) :
              m1.Cursor = tr[Decimal(ks)].Cursor

\* the count 2 is typed and the motion j is about to act: it moves the
\* cursor further than j alone would
CountedMotionRepeatsWitness ==
    /\ Ready
    /\ Parser.Count = 2
    /\ \E m1 \in Update(M, "j") : \E m2 \in Update([M EXCEPT !.Parser.Count = 0], "j") :
          m1.Cursor.Row = Cursor.Row + 2 /\ m2.Cursor.Row = Cursor.Row + 1

\* C8: for n in 1..99, typing the digits of n and G places the cursor at row
\* min(n, lineCount)-1, column 0; G with no count places it at the last row,
\* column 0
CountedBigGGoesToLine ==
    (Ready /\ Parser.Count = 0) =>
      /\ \A ks \in CountStrings : \A m1 \in RunKeys({M}, ks \o <<"G">>) :
           m1.Cursor = Pos(Min(Decimal(ks), Len(Buffer)) - 1, 0)
      /\ \A m1 \in Update(M, "G") : m1.Cursor = Pos(Len(Buffer) - 1, 0)

\* the count 2 is typed in a buffer of three lines and G is about to act:
\* it goes to the second line, not the last
CountedBigGGoesToLineWitness ==
    /\ Ready
    /\ Parser.Count = 2
    /\ Len(Buffer) = 3
    /\ Cursor.Row = 0
    /\ Cursor.Col > 0
    /\ \A m1 \in Update(M, "G") : m1.Cursor = Pos(1, 0)

\* the key is handed to the parser: Update routes it to handlePlayingInput
ReachesFeed(key) ==
    /\ Playing
    /\ key # "ctrl+c"
    /\ ~(key = "esc" /\ VimMode = "ModeNormal")

\* C11: whenever Feed returns Consumed=false for a key pressed in the playing
\* state, the keypress leaves lines, cursor, desired column, Past, Future, vim
\* mode, keystroke counter, score, target and game state as they were (every
\* field of the session but the parser)
UnconsumedKeyChangesNothing ==
    \A key \in AllKeys :
      (ReachesFeed(key) /\ ~Feed(Parser, key).r.Consumed) =>
        \A n \in Update(M, key) : [n EXCEPT !.Parser = Parser] = M

\* a count is typed and keys were counted, and the
\* next key (tab) is one the parser does not consume
UnconsumedKeyChangesNothingWitness ==
    /\ Ready
    /\ Keystrokes > 0
    /\ Parser.Count > 0
    /\ ~Feed(Parser, "tab").r.Consumed
    /\ \A n \in Update(M, "tab") : n.Parser.Count = 0 /\ n.Keystrokes = Keystrokes

\* C12: while an exercise is in play the buffer has at least one line, and
\* no key (x, r, typing, enter, backspace, o, O, u, ctrl+r, motions, with or
\* without a count) nor any single edit leaves it with none
BufferNeverEmpty ==
    Playing =>
      /\ Len(Buffer) >= 1
      /\ \A key \in AllKeys : \A n \in Update(M, key) : Len(n.Buffer) >= 1
      /\ Ready =>
           \A ks \in SingleEdits \cup {<<"9", "9", "x">>, <<"u">>, <<"ctrl+r">>} :
             \A n \in RunKeys({M}, ks) : Len(n.Buffer) >= 1

\* insert mode at the start of a buffer of one line, reached by backspace
\* joining two lines: the next backspace has nothing to join with
BufferNeverEmptyWitness ==
    /\ Playing
    /\ VimMode = "ModeInsert"
    /\ Len(Buffer) = 1
    /\ Cursor = Pos(0, 0)
    /\ Undo.Past # <<>>
    /\ Len(At(Undo.Past, Len(Undo.Past) - 1).Lines) = 2

\* the cursor of m is on a character of its buffer (column 0 of an empty line)
OnCharacter(m) ==
    /\ 0 <= m.Cursor.Row
    /\ m.Cursor.Row < Len(m.Buffer)
    /\ 0 <= m.Cursor.Col
    /\ m.Cursor.Col <= Max(0, Len(At(m.Buffer, m.Cursor.Row)) - 1)

\* keys that end in Normal mode: each key alone, each pair of motions, and
\* w, b, e onto and across a line of one space opened below the cursor
NormalModeRuns ==
    {<<k>> : k \in AllKeys}
      \cup {<<k1, k2>> : k1 \in MoveKeys, k2 \in MoveKeys}
      \cup {<<"o", " ", "esc">> \o ks :
              ks \in {<<>>, <<"k", "$", "w">>, <<"k", "$", "e">>, <<"w">>, <<"e">>,
                      <<"b">>, <<"j", "b">>, <<"k", "w", "w">>, <<"x">>, <<"u">>}}

\* C13: whenever the session is in Normal mode between keypresses the cursor
\* is on a character: 0 <= row < lineCount and 0 <= col <= max(0, len-1),
\* after every motion (w, b, e onto or across empty and whitespace-only
\* lines included), every x and r, esc from Insert mode, u and ctrl+r
CursorOnCharacter ==
    (Playing /\ VimMode = "ModeNormal") =>
      /\ OnCharacter(M)
      /\ Ready =>
           \A ks \in NormalModeRuns : \A n \in RunKeys({M}, ks) :
             (n.State = "StatePlaying" /\ n.VimMode = "ModeNormal") => OnCharacter(n)

----------------------------------------------------------------------------
(* The core operations on their own: Buffer primitives and ApplyMotion are
   called with arbitrary arguments on small buffers.  A Go index or slice
   expression with an out-of-range operand aborts the call with a run-time
   panic; the ...Panics predicates state, per operation, for which
   arguments the source reaches such an expression. *)

MaxSize == 4

BufferChars == {"a", " ", "."}

FooBar == <<"f", "o", "o", " ", " ", "b", "a", "r", ".", "b", "a", "z">>

RECURSIVE SumLen(_)
SumLen(lines) == IF lines = <<>> THEN 0 ELSE Len(Head(lines)) + SumLen(Tail(lines))

\* lines plus characters
Size(lines) == Len(lines) + SumLen(lines)

MaxLineLen(lines) ==
    IF lines = <<>> THEN 0
    ELSE LET lens == {Len(lines[i]) : i \in 1..Len(lines)}
         IN CHOOSE n \in lens : \A k \in lens : n >= k

\* row and col arguments, two beyond the buffer on every side
Rows(lines) == (0 - 2)..(Len(lines) + 1)

Cols(lines) == (0 - 2)..(MaxLineLen(lines) + 2)

RowOK(lines, row) == 0 <= row /\ row < Len(lines)

Motions ==
    {"MotionH", "MotionJ", "MotionK", "MotionL", "MotionW", "MotionB", "MotionE",
     "MotionZero", "MotionDollar", "MotionCaret", "MotionGG", "MotionBigG",
     "MotionFChar", "MotionBigFChar", "MotionNone"}

\* line[:col-1] after col was clamped to len(line) = 0
DeleteCharBeforePanics(lines, row, col) ==
    /\ RowOK(lines, row)
    /\ col > 0
    /\ Min(col, Len(At(lines, row))) - 1 < 0

\* lines[pos.Row], then line[col] in the first loop
moveWordPanics(lines, pos) ==
    \/ ~RowOK(lines, pos.Row)
    \/ pos.Col < 0

\* col == 0: lines[row-1]; otherwise lines[row] and line[col] after col--
moveWordBackPanics(lines, pos) ==
    IF pos.Col = 0 THEN pos.Row > 0 /\ pos.Row - 1 >= Len(lines)
    ELSE \/ ~RowOK(lines, pos.Row)
         \/ pos.Col - 1 < 0
         \/ pos.Col - 1 > 0 /\ pos.Col - 1 >= Len(At(lines, pos.Row))

\* lines[pos.Row], then line[col] after col++
moveWordEndPanics(lines, pos) ==
    \/ ~RowOK(lines, pos.Row)
    \/ pos.Col + 1 < 0

\* lines[pos.Row], then line[i] from i = pos.Col+1 upwards
findCharForwardPanics(lines, pos) ==
    \/ ~RowOK(lines, pos.Row)
    \/ pos.Col + 1 < 0

\* lines[pos.Row], then line[i] from i = pos.Col-1 downwards
findCharBackwardPanics(lines, pos) ==
    \/ ~RowOK(lines, pos.Row)
    \/ pos.Col - 1 >= Len(At(lines, pos.Row))

ApplyMotionPanics(lines, pos, motion) ==
    /\ Len(lines) # 0
    /\ CASE motion \in {"MotionDollar", "MotionCaret"} -> ~RowOK(lines, pos.Row)
         [] motion = "MotionW" -> moveWordPanics(lines, pos)
         [] motion = "MotionB" -> moveWordBackPanics(lines, pos)
         [] motion = "MotionE" -> moveWordEndPanics(lines, pos)
         [] motion = "MotionFChar" -> findCharForwardPanics(lines, pos)
         [] motion = "MotionBigFChar" -> findCharBackwardPanics(lines, pos)
         [] OTHER -> FALSE

\* the caller's buffer and cursor after a primitive returned res
Returned(res) ==
    /\ Size(Buffer) <= MaxSize
    /\ Size(res.Lines) <= MaxSize
    /\ Buffer' = res.Lines
    /\ Cursor' = res.Pos
    /\ UNCHANGED <<State, GameMode, LessonIndex, ExIndex, LevelIndex, Target, GoalLines,
                   VimMode, Undo, Score, TargetsHit, Keystrokes, Parser, DesiredCol>>

CallDeleteChar ==
    \E row \in Rows(Buffer), col \in Cols(Buffer) :
      Returned(DeleteChar(Buffer, row, col))

CallReplaceChar ==
    \E row \in Rows(Buffer), col \in Cols(Buffer), ch \in BufferChars :
      Returned(ReplaceChar(Buffer, row, col, ch))

CallInsertChar ==
    \E row \in Rows(Buffer), col \in Cols(Buffer), ch \in BufferChars :
      Returned(InsertChar(Buffer, row, col, ch))

CallDeleteCharBefore ==
    \E row \in Rows(Buffer), col \in Cols(Buffer) :
      /\ ~DeleteCharBeforePanics(Buffer, row, col)
      /\ Returned(DeleteCharBefore(Buffer, row, col))

CallSplitLine ==
    \E row \in Rows(Buffer), col \in Cols(Buffer) :
      Returned(SplitLine(Buffer, row, col))

CallInsertLine ==
    \E row \in Rows(Buffer) : Returned(InsertLine(Buffer, row))

CallInsertLineAbove ==
    \E row \in Rows(Buffer) : Returned(InsertLineAbove(Buffer, row))

CallApplyMotion ==
    \E motion \in Motions, ch \in BufferChars :
      /\ ~ApplyMotionPanics(Buffer, Cursor, motion)
      /\ Cursor' = ApplyMotion(Buffer, Cursor, motion, ch)
      /\ UNCHANGED <<State, GameMode, LessonIndex, ExIndex, LevelIndex, Buffer, Target,
                     GoalLines, VimMode, Undo, Score, TargetsHit, Keystrokes, Parser,
                     DesiredCol>>

InitBuffer ==
    /\ State = NewModel.State
    /\ GameMode = NewModel.GameMode
    /\ LessonIndex = NewModel.LessonIndex
    /\ ExIndex = NewModel.ExIndex
    /\ LevelIndex = NewModel.LevelIndex
    /\ Buffer \in {<<>>, <<FooBar>>}
    /\ Cursor = Pos(0, 0)
    /\ Target = NewModel.Target
    /\ GoalLines = NewModel.GoalLines
    /\ VimMode = NewModel.VimMode
    /\ Undo = NewModel.Undo
    /\ Score = NewModel.Score
    /\ TargetsHit = NewModel.TargetsHit
    /\ Keystrokes = NewModel.Keystrokes
    /\ Parser = NewModel.Parser
    /\ DesiredCol = NewModel.DesiredCol

NextBuffer ==
    \/ CallDeleteChar
    \/ CallReplaceChar
    \/ CallInsertChar
    \/ CallDeleteCharBefore
    \/ CallSplitLine
    \/ CallInsertLine
    \/ CallInsertLineAbove
    \/ CallApplyMotion

SpecBuffer == InitBuffer /\ [][NextBuffer]_vars

\* C14: every core operation is total: for the buffer at hand and any row and
\* col, in range or not, neither ApplyMotion with any motion nor any Buffer
\* primitive reaches an out-of-range index or slice expression.
EveryOperationTotal ==
    \A row \in Rows(Buffer), col \in Cols(Buffer) :
      /\ ~DeleteCharBeforePanics(Buffer, row, col)
      /\ \A motion \in Motions : ~ApplyMotionPanics(Buffer, Pos(row, col), motion)

FindChars == BufferChars \cup {"b", "o"}

\* the cursor positions clamp accepts
InBounds(lines) ==
    {Pos(row, col) : row \in 0..(Len(lines) - 1), col \in 0..MaxLineLen(lines)}
      \cap {p \in [Row : Int, Col : Int] :
              p.Col <= Max(0, Len(At(lines, p.Row)) - 1)}

\* q is the occurrence of ch on p's row nearest to p on the given side
NearestRight(lines, p, q, ch) ==
    /\ q.Row = p.Row
    /\ q.Col > p.Col
    /\ At(At(lines, p.Row), q.Col) = ch
    /\ \A i \in (p.Col + 1)..(q.Col - 1) : At(At(lines, p.Row), i) # ch

NearestLeft(lines, p, q, ch) ==
    /\ q.Row = p.Row
    /\ q.Col < p.Col
    /\ At(At(lines, p.Row), q.Col) = ch
    /\ \A i \in (q.Col + 1)..(p.Col - 1) : At(At(lines, p.Row), i) # ch

Occurs(lines, p, ch, cols) == \E i \in cols : At(At(lines, p.Row), i) = ch

\* C15: f{c} and F{c} never leave the current line: from an in-bounds cursor,
\* f{c} returns the nearest occurrence of c strictly to the right on the same
\* row, F{c} the nearest strictly to the left, and without such an occurrence
\* the position is returned unchanged, also when the motion is repeated.
FindStaysOnLine ==
    \A p \in InBounds(Buffer) : \A ch \in FindChars :
      LET line == At(Buffer, p.Row)
          f    == ApplyMotion(Buffer, p, "MotionFChar", ch)
          F    == ApplyMotion(Buffer, p, "MotionBigFChar", ch)
      IN /\ IF Occurs(Buffer, p, ch, (p.Col + 1)..(Len(line) - 1))
            THEN NearestRight(Buffer, p, f, ch)
            ELSE f = p
         /\ IF Occurs(Buffer, p, ch, 0..(p.Col - 1))
            THEN NearestLeft(Buffer, p, F, ch)
            ELSE F = p
         /\ \A n \in 2..3 :
              LET fn == RepeatMotion(Buffer, p, "MotionFChar", ch, n)
                  Fn == RepeatMotion(Buffer, p, "MotionBigFChar", ch, n)
              IN /\ fn.Row = p.Row
                 /\ Fn.Row = p.Row
                 /\ ~Occurs(Buffer, p, ch, (p.Col + 1)..(Len(line) - 1)) => fn = p
                 /\ ~Occurs(Buffer, p, ch, 0..(p.Col - 1)) => Fn = p
                 /\ fn = ApplyMotion(Buffer, RepeatMotion(Buffer, p, "MotionFChar", ch, n - 1),
                                     "MotionFChar", ch)
                 /\ Fn = ApplyMotion(Buffer, RepeatMotion(Buffer, p, "MotionBigFChar", ch, n - 1),
                                     "MotionBigFChar", ch)

\* the cursor stands on the second b of "foo  bar.baz", where fb from the first
\* b lands and from where a further fb finds nothing, on a buffer whose line
\* also has an occurrence to the left for Fb
FindStaysOnLineWitness ==
    /\ Buffer = <<FooBar>>
    /\ Cursor = ApplyMotion(Buffer, Pos(0, 5), "MotionFChar", "b")
    /\ Cursor = Pos(0, 9)
    /\ ApplyMotion(Buffer, Cursor, "MotionFChar", "b") = Cursor
    /\ ApplyMotion(Buffer, Cursor, "MotionBigFChar", "b") = Pos(0, 5)

\* C16: DeleteCharBefore(row, 0) with row > 0 replaces lines row-1 and row by
\* their concatenation: the line count decreases by exactly one, all other
\* lines keep their content and order, and the cursor returned is (row-1, L)
\* with L the length of line row-1 before the call.
BackspaceJoinsLines ==
    \A row \in 1..(Len(Buffer) - 1) :
      LET res == DeleteCharBefore(Buffer, row, 0)
      IN /\ Len(res.Lines) = Len(Buffer) - 1
         /\ At(res.Lines, row - 1) = At(Buffer, row - 1) \o At(Buffer, row)
         /\ \A i \in 0..(row - 2) : At(res.Lines, i) = At(Buffer, i)
         /\ \A i \in row..(Len(res.Lines) - 1) : At(res.Lines, i) = At(Buffer, i + 1)
         /\ res.Pos = Pos(row - 1, Len(At(Buffer, row - 1)))

\* the cursor is at column 0 of a non-empty line below a non-empty line, and the
\* join moves both the text and the cursor
BackspaceJoinsLinesWitness ==
    /\ Cursor.Row \in 1..(Len(Buffer) - 1)
    /\ Cursor.Col = 0
    /\ At(Buffer, Cursor.Row) # <<>>
    /\ At(Buffer, Cursor.Row - 1) # <<>>
    /\ DeleteCharBefore(Buffer, Cursor.Row, Cursor.Col).Pos.Col > 0

\* C17: SplitLine and DeleteCharBefore are an inverse pair: for every valid row
\* and every col in [0, len(line[row])], SplitLine(row, col) followed by
\* DeleteCharBefore at the cursor it returns gives back the original buffer
\* and returns the cursor (row, col).
SplitThenBackspaceIsIdentity ==
    \A row \in 0..(Len(Buffer) - 1) : \A col \in 0..Len(At(Buffer, row)) :
      LET s == SplitLine(Buffer, row, col)
          d == DeleteCharBefore(s.Lines, s.Pos.Row, s.Pos.Col)
      IN /\ s.Lines # Buffer
         /\ d.Lines = Buffer
         /\ d.Pos = Pos(row, col)

\* the buffer is the outcome of a split inside a line: the cursor is at the
\* start of a non-empty line below a non-empty line, and joining and splitting
\* again gives this very state
SplitThenBackspaceIsIdentityWitness ==
    /\ Cursor.Row \in 1..(Len(Buffer) - 1)
    /\ Cursor.Col = 0
    /\ At(Buffer, Cursor.Row) # <<>>
    /\ At(Buffer, Cursor.Row - 1) # <<>>
    /\ LET j == DeleteCharBefore(Buffer, Cursor.Row, Cursor.Col)
       IN SplitLine(j.Lines, j.Pos.Row, j.Pos.Col) = BufRes(Buffer, Cursor)

\* the session awaits the first key of a Normal-mode command
ReadyModel(n) ==
    /\ n.State = "StatePlaying"
    /\ n.VimMode = "ModeNormal"
    /\ n.Parser.Mode = "ModeNormal"
    /\ n.Parser.State = "InputReady"

\* keys typed before i, a or A, to place the cursor
EnterInsertPrefixes ==
    {<<>>, <<"$">>, <<"j">>, <<"l">>, <<"o", " ", "esc", "k", "$", "w">>}

EntersInsertAt(m) ==
    LET line == At(m.Buffer, m.Cursor.Row)
        col  == m.Cursor.Col
    IN \A key \in {"i", "a", "A"} :
         /\ Update(m, key) # {}
         /\ \A n \in Update(m, key) :
              /\ n.Buffer = m.Buffer
              /\ n.VimMode = "ModeInsert"
              /\ n.Parser.Mode = "ModeInsert"
              /\ n.Cursor.Row = m.Cursor.Row
              /\ key = "i" => n.Cursor.Col = col
              /\ (key = "a" /\ col < Len(line)) => n.Cursor.Col = col + 1
              /\ (key = "a" /\ col = Len(line)) => n.Cursor.Col = col
              /\ key = "A" => n.Cursor.Col = Len(line)

\* C18: entering Insert mode with a moves the cursor to col+1 when
\* col < len(line) and leaves it in place when col equals len(line); A sets
\* col to len(line) whatever the starting column; i leaves the cursor
\* unchanged; in all three cases the buffer lines are unchanged and the mode
\* becomes Insert.
EnterInsertPlacesCursor ==
    Ready =>
      \A ks \in EnterInsertPrefixes : \A m \in RunKeys({M}, ks) :
        ReadyModel(m) => EntersInsertAt(m)

\* the cursor is on the first of several characters, so that a and A move it
\* to different columns, and a puts the session in Insert mode one column on
EnterInsertPlacesCursorWitness ==
    /\ Ready
    /\ Cursor.Col = 0
    /\ Len(At(Buffer, Cursor.Row)) >= 2
    /\ \E n \in Update(M, "a") : n.VimMode = "ModeInsert" /\ n.Cursor.Col = 1
    /\ \E n \in Update(M, "A") : n.Cursor.Col = Len(At(Buffer, Cursor.Row))
    /\ \E n \in RunKeys({M}, <<"j">>) :
         ReadyModel(n) /\ At(n.Buffer, n.Cursor.Row) = <<>>

\* the columns at which repeated w and e from column 0, and repeated b from
\* column 11, stop on "foo  bar.baz"
WStops == <<5, 8, 9, 11, 11>>

EStops == <<2, 7, 8, 11, 11>>

BStops == <<9, 8, 5, 0, 0>>

\* C19: on the single-line buffer "foo  bar.baz", word and punctuation runs
\* are distinct words: repeated w from column 0 stops at 5, 8, 9, 11 and stays
\* at 11; repeated e at 2, 7, 8, 11 and stays at 11; repeated b from column 11
\* at 9, 8, 5, 0 and stays at 0.
WordMotionsOnFooBar ==
    Buffer = <<FooBar>> =>
      \A n \in 1..5 :
        /\ RepeatMotion(Buffer, Pos(0, 0), "MotionW", "", n) = Pos(0, WStops[n])
        /\ RepeatMotion(Buffer, Pos(0, 0), "MotionE", "", n) = Pos(0, EStops[n])
        /\ RepeatMotion(Buffer, Pos(0, 11), "MotionB", "", n) = Pos(0, BStops[n])

\* the cursor has reached the "." of "foo  bar.baz", a stop of w, e and b alike
WordMotionsOnFooBarWitness ==
    /\ Buffer = <<FooBar>>
    /\ Cursor = Pos(0, 8)
    /\ Cursor = RepeatMotion(Buffer, Pos(0, 0), "MotionW", "", 2)
    /\ ApplyMotion(Buffer, Cursor, "MotionW", "") = Pos(0, 9)

\* the keys that can start or restart an exercise or level
StartKeys == {"enter", "1", "2", "c", "t"}

\* n is a session at the first key of an exercise
FreshlyStarted(n) ==
    /\ n.Parser.Mode = "ModeNormal"
    /\ n.Parser.State = "InputReady"
    /\ n.Parser.Count = 0
    /\ n.Parser.FChar = ""
    /\ n.VimMode = "ModeNormal"
    /\ n.Undo.Past = <<>>
    /\ n.Undo.Future = <<>>
    /\ \A key \in AllKeys :
         LET fed == Feed(n.Parser, key)
         IN /\ fed.r.Count = 0
            /\ (key \in {"j", "w", "x", "u"}) => (fed.r.Consumed /\ fed.p.State = "InputReady")

\* C20: whenever an exercise or level (re)starts, from any prior session state
\* (a pending g/f/F/r, a partly typed count, a non-empty history), the parser
\* is in Normal mode, state Ready, Count 0 and find-character 0, the vim mode
\* is Normal and Past and Future are empty, so that the first key of the
\* exercise is interpreted with no leftover count or pending sequence.
StartResetsInput ==
    ~Playing =>
      \A key \in AllKeys : \A n \in Update(M, key) :
        n.State = "StatePlaying" => FreshlyStarted(n)

\* play was left with a pending command and a non-empty history, and the next
\* key starts an exercise
StartResetsInputWitness ==
    /\ ~Playing
    /\ Parser.State # "InputReady"
    /\ Undo.Past # <<>>
    /\ \E key \in StartKeys : \E n \in Update(M, key) : n.State = "StatePlaying"

\* the action feedInsert is claimed to yield for the key
InsertActionOf(key) ==
    CASE key = "esc" -> "ActionExitInsert"
      [] key = "enter" -> "ActionInsertNewline"
      [] key = "backspace" -> "ActionInsertBackspace"
      [] key \in SingleKeys -> "ActionInsertChar"
      [] OTHER -> "ActionNone"

\* C21: in Insert mode the parser has no sub-states: every Feed call returns
\* Consumed=true and leaves State=Ready and Count=0 (digits are inserted as
\* text), esc is the only key that changes Mode (to Normal, with ExitInsert),
\* enter yields InsertNewline, backspace InsertBackspace, a single printable
\* character InsertChar with that character, every other key no action.
InsertModeHasNoSubStates ==
    Parser.Mode = "ModeInsert" =>
      /\ Parser.State = "InputReady"
      /\ Parser.Count = 0
      /\ \A key \in AllKeys :
           LET fed == Feed(Parser, key)
           IN /\ fed.r.Consumed
              /\ fed.p.State = "InputReady"
              /\ fed.p.Count = 0
              /\ fed.r.Count = 0
              /\ fed.r.Motion = "MotionNone"
              /\ fed.r.Action = InsertActionOf(key)
              /\ fed.r.Char = (IF key \in SingleKeys THEN key ELSE "")
              /\ fed.p.Mode = (IF key = "esc" THEN "ModeNormal" ELSE "ModeInsert")

\* the parser is in Insert mode, where the digit 5 is text
InsertModeHasNoSubStatesWitness ==
    /\ Parser.Mode = "ModeInsert"
    /\ Feed(Parser, "5").r.Action = "ActionInsertChar"
    /\ Feed(Parser, "5").r.Char = "5"
    /\ Feed(Parser, "ctrl+r").r.Action = "ActionNone"

\* the key sequences that complete one motion, without a count
PlainMotionRuns ==
    {<<k>> : k \in {"h", "j", "k", "l", "w", "b", "e", "0", "$", "^", "G"}}
      \cup {<<"g", "g">>}
      \cup {<<f, c>> : f \in {"f", "F"}, c \in {"a", "b", " ", "."}}

\* the same with a count typed first
MotionRuns ==
    PlainMotionRuns
      \cup {<<"2", k>> : k \in {"j", "l", "w", "b", "e", "$", "G"}}
      \cup {<<"2", "g", "g">>, <<"2", "f", "a">>, <<"2", "F", " ">>,
            <<"9", "9", "w">>, <<"1", "0", "j">>}

\* C22: motions have no side effects on text or history: a completed motion
\* keypress (h j k l w b e 0 $ ^ G gg f{c} F{c}, with or without a count)
\* leaves the buffer lines, Past and Future exactly unchanged; the goal, the
\* vim mode and the place in the course are left alone as well.
MotionsLeaveTextAndHistory ==
    Ready =>
      \A ks \in MotionRuns : \A n \in RunKeys({M}, ks) :
        /\ n.Buffer = Buffer
        /\ n.Undo = Undo
        /\ n.GoalLines = GoalLines
        /\ n.VimMode = VimMode
        /\ n.GameMode = GameMode
        /\ n.LessonIndex = LessonIndex
        /\ n.ExIndex = ExIndex
        /\ n.LevelIndex = LevelIndex

\* an edit exercise with snapshots on both Past and Future, where l moves the
\* cursor
MotionsLeaveTextAndHistoryWitness ==
    /\ Ready
    /\ Undo.Past # <<>>
    /\ Undo.Future # <<>>
    /\ \E n \in Update(M, "l") : n.Cursor # Cursor /\ n.Undo = Undo

\* the keys that enter Insert mode, each an edit command of its own
EnterInsertKeys == {"i", "a", "A", "o", "O"}

\* C23: the snapshot is taken before the mutation and once per edit command:
\* for x (any count), r{char} and each of i/a/A/o/O exactly one entry is
\* pushed on Past, and it holds the lines and the cursor of before the key
\* took effect; insert-mode keys (characters, enter, backspace) and esc push
\* nothing, so a whole insert session and a counted nx are one undo step each.
SnapshotBeforeEachEdit ==
    /\ Ready =>
         \A ks \in SingleEdits \cup {<<k>> : k \in EnterInsertKeys} :
           \A n \in RunKeys({M}, ks) :
             n.Undo.Past = Append(Undo.Past, UndoEntry(Buffer, Cursor))
    /\ (Playing /\ VimMode = "ModeInsert") =>
         \A key \in AllKeys : \A n \in Update(M, key) : n.Undo = Undo

\* o has just opened a line: the session is in Insert mode and the one
\* snapshot on Past holds the buffer without the new line
SnapshotBeforeEachEditWitness ==
    /\ Playing
    /\ VimMode = "ModeInsert"
    /\ Len(Undo.Past) = 1
    /\ Len(Buffer) = Len(Undo.Past[1].Lines) + 1
    /\ Undo.Past[1].CursorPos # Cursor

\* C24: after r in Normal mode the very next Feed call always returns the
\* parser to Ready with Count 0 and returns Consumed=true; it yields
\* ReplaceChar with that character if and only if the key is a single
\* printable character, and otherwise (any named key, ctrl+r included) no
\* action at all.
KeyAfterRCompletesOrCancels ==
    (Parser.Mode = "ModeNormal" /\ Parser.State = "InputPendingR") =>
      \A key \in AllKeys :
        LET fed == Feed(Parser, key)
        IN /\ fed.r.Consumed
           /\ fed.p.State = "InputReady"
           /\ fed.p.Count = 0
           /\ fed.p.Mode = "ModeNormal"
           /\ fed.r.Motion = "MotionNone"
           /\ fed.r.EnterMode = "ModeNormal"
           /\ fed.r.Action = (IF key \in SingleKeys THEN "ActionReplaceChar"
                              ELSE "ActionNone")
           /\ key \in SingleKeys => fed.r.Char = key

\* r has been fed: the parser awaits the replacement character
KeyAfterRCompletesOrCancelsWitness ==
    /\ Parser.Mode = "ModeNormal"
    /\ Parser.State = "InputPendingR"
    /\ Feed(Parser, "ctrl+r").r.Action = "ActionNone"
    /\ Feed(Parser, "r").r.Action = "ActionReplaceChar"

\* the single characters feedNormal binds to a command in the Ready state
BoundKeys ==
    Digits \cup {"h", "j", "k", "l", "w", "b", "e", "$", "^", "G", "g", "f", "F",
                 "x", "r", "i", "a", "A", "o", "O", "u"}

\* the keys the claim calls unrecognized, by parser state
Unrecognized(p) ==
    (NamedKeys \ {"ctrl+r"})
      \cup (IF p.State = "InputReady" THEN SingleKeys \ BoundKeys ELSE {})

\* C25: in Normal mode with the parser in Ready, PendingF or PendingBigF, an
\* unrecognized key (any multi-character key other than ctrl+r, or in Ready a
\* single character bound to no command) returns Consumed=false with no
\* action and leaves the parser in Ready with Count 0, any accumulated count
\* discarded, so that the next motion runs without a count.
UnrecognizedKeyResets ==
    (Parser.Mode = "ModeNormal"
       /\ Parser.State \in {"InputReady", "InputPendingF", "InputPendingBigF"}) =>
      \A key \in Unrecognized(Parser) :
        LET fed == Feed(Parser, key)
        IN /\ fed.r = ZeroResult
           /\ ~fed.r.Consumed
           /\ fed.p.State = "InputReady"
           /\ fed.p.Count = 0
           /\ fed.p.Mode = "ModeNormal"
           /\ \A mk \in {"j", "w", "G"} :
                /\ Feed(fed.p, mk).r.Action = "ActionMotion"
                /\ Feed(fed.p, mk).r.Count = 0

\* a count has been typed in Ready, and tab and z alike discard it
UnrecognizedKeyResetsWitness ==
    /\ ParserReady
    /\ Parser.Count > 9
    /\ Feed(Parser, "tab").p.Count = 0
    /\ Feed(Parser, "z").p.Count = 0
    /\ Feed(Parser, "j").r.Count = Parser.Count

\* the class of a character for the word motions
ClassOf(ch) == IF ch = " " THEN "space" ELSE IF isWordChar(ch) THEN "word" ELSE "punct"

\* a word or punctuation run starts at column c of the line
WordStartAt(line, c) ==
    /\ At(line, c) # " "
    /\ c = 0 \/ ClassOf(At(line, c)) # ClassOf(At(line, c - 1))

WordStartRightOf(line, col) == \E c \in (col + 1)..(Len(line) - 1) : WordStartAt(line, c)

HasNonSpace(line) == \E c \in 0..(Len(line) - 1) : At(line, c) # " "

\* C26: w wraps at end of line: for every in-bounds cursor on a row that is
\* not the last, if no word start exists to the right of the cursor on the
\* current line (an empty current line included), w returns a position on the
\* next row, at that row's first non-space column where it has one; only when
\* there is no next row does w land on the last character of the current line
\* (col 0 if it is empty).
WordForwardWraps ==
    \A p \in InBounds(Buffer) :
      LET line == At(Buffer, p.Row)
          w    == ApplyMotion(Buffer, p, "MotionW", "")
      IN ~WordStartRightOf(line, p.Col) =>
           IF p.Row + 1 < Len(Buffer)
           THEN LET next == At(Buffer, p.Row + 1)
                IN /\ w.Row = p.Row + 1
                   /\ HasNonSpace(next) => w.Col = SkipWhile(next, 0, IsSpaceCh)
           ELSE w = Pos(p.Row, Max(0, Len(line) - 1))

\* C27: a single invocation of w, b, e, f or F crosses at most one line
\* boundary: for every in-bounds cursor the returned row differs from the
\* input row by at most 1, and by 0 for f and F.
OneLineBoundaryPerMotion ==
    \A p \in InBounds(Buffer) :
      /\ \A motion \in {"MotionW", "MotionB", "MotionE"} :
           abs(ApplyMotion(Buffer, p, motion, "").Row - p.Row) <= 1
      /\ \A motion \in {"MotionFChar", "MotionBigFChar"} : \A ch \in FindChars :
           ApplyMotion(Buffer, p, motion, ch).Row = p.Row

\* p comes strictly before q in (row, col) order
Earlier(p, q) == p.Row < q.Row \/ (p.Row = q.Row /\ p.Col < q.Col)

\* the last position of the buffer
FinalPos(lines) == Pos(Len(lines) - 1, Max(0, Len(At(lines, Len(lines) - 1)) - 1))

\* C28: e always makes progress: for every in-bounds cursor other than the
\* final position of the buffer (last row, column max(0, len-1)), e returns a
\* position strictly later in (row, col) order that is in bounds; from the
\* final position e returns the same position.
WordEndMakesProgress ==
    \A p \in InBounds(Buffer) :
      LET e == ApplyMotion(Buffer, p, "MotionE", "")
      IN IF p = FinalPos(Buffer) THEN e = p
         ELSE Earlier(p, e) /\ e \in InBounds(Buffer)

\* row clamped to [0, lineCount-1], col clamped to [0, max(0, len(line)-1)]
ClampedRow(lines, row) == Min(Max(row, 0), Len(lines) - 1)

ClampedCol(lines, row, col) == Min(Max(col, 0), Max(0, Len(At(lines, row)) - 1))

Clamped(lines, row, col) ==
    Pos(ClampedRow(lines, row), ClampedCol(lines, ClampedRow(lines, row), col))

\* C29: for a non-empty buffer and any input position, ApplyMotion with h or
\* l returns the same row (clamped into the buffer) and col-1 or col+1 clamped
\* to [0, max(0, len(line)-1)]; with j or k it returns row+1 or row-1 clamped
\* to [0, lineCount-1] and the input col clamped to
\* [0, max(0, len(newLine)-1)]; an unrecognized motion returns the input
\* position clamped the same way.
BasicMotionsClamp ==
    Buffer # <<>> =>
      \A row \in Rows(Buffer), col \in Cols(Buffer) :
        LET p == Pos(row, col) IN
        /\ ApplyMotion(Buffer, p, "MotionH", "") = Clamped(Buffer, row, col - 1)
        /\ ApplyMotion(Buffer, p, "MotionL", "") = Clamped(Buffer, row, col + 1)
        /\ ApplyMotion(Buffer, p, "MotionJ", "") = Clamped(Buffer, row + 1, col)
        /\ ApplyMotion(Buffer, p, "MotionK", "") = Clamped(Buffer, row - 1, col)
        /\ ApplyMotion(Buffer, p, "MotionNone", "") = Clamped(Buffer, row, col)

\* the cursor is outside a buffer whose lines differ in length, and k brings
\* it onto the last line
BasicMotionsClampWitness ==
    /\ Len(Buffer) >= 2
    /\ Len(At(Buffer, 0)) # Len(At(Buffer, Len(Buffer) - 1))
    /\ Cursor.Row > Len(Buffer)
    /\ Cursor.Col > MaxLineLen(Buffer)
    /\ ApplyMotion(Buffer, Cursor, "MotionK", "") = FinalPos(Buffer)

\* sequences of j and k keypresses, some with counts
JKRuns ==
    {<<>>}
      \cup {<<a>> : a \in {"j", "k"}}
      \cup {<<a, b>> : a \in {"j", "k"}, b \in {"j", "k"}}
      \cup {<<a, b, c>> : a \in {"j", "k"}, b \in {"j", "k"}, c \in {"j", "k"}}
      \cup {<<"2", "j">>, <<"2", "k">>, <<"j", "2", "k">>, <<"2", "j", "2", "k">>,
            <<"9", "9", "j", "k">>, <<"k", "1", "0", "j">>}

\* C30: after $ the desired column is pinned to the end of the line:
\* following a $ keypress, after any sequence of j and k keypresses (with or
\* without counts) the cursor is on the last character of its current line
\* (col = max(0, len(line)-1)).
DollarPinsEndOfLine ==
    Ready =>
      \A ks \in JKRuns : \A n \in RunKeys({M}, <<"$">> \o ks) :
        n.Cursor.Col = Max(0, Len(At(n.Buffer, n.Cursor.Row)) - 1)

\* $ has been pressed and the cursor stands at the end of a line below the
\* first; k takes it to a line of another length
DollarPinsEndOfLineWitness ==
    /\ Ready
    /\ DesiredCol = DesiredColMax
    /\ Cursor.Row > 0
    /\ Cursor.Col > 0
    /\ \E n \in Update(M, "k") : n.Cursor.Row < Cursor.Row /\ n.Cursor.Col < Cursor.Col

\* C31: vertical moves preserve the horizontal target column: after a
\* non-vertical motion other than $ leaves the cursor at column c, any
\* sequence of j and k keypresses leaves the cursor at column
\* min(c, max(0, len(line[row])-1)) on whatever row it reaches, so that
\* passing through shorter lines and back to a long line returns to column c.
VerticalMovesKeepColumn ==
    (Ready /\ Parser.Count = 0) =>
      \A mk \in {r \in MotionRuns : r[Len(r)] \notin {"j", "k", "$"}} :
        \A m1 \in RunKeys({M}, mk) :
          \A ks \in JKRuns \ {<<>>} : \A n \in RunKeys({m1}, ks) :
            n.Cursor.Col = Min(m1.Cursor.Col,
                               Max(0, Len(At(n.Buffer, n.Cursor.Row)) - 1))

\* the cursor has come down onto a shorter line: the column it is held at is
\* left of the desired one, and k takes it back there
VerticalMovesKeepColumnWitness ==
    /\ Ready
    /\ Parser.Count = 0
    /\ DesiredCol # DesiredColMax
    /\ DesiredCol > Cursor.Col
    /\ \E n \in Update(M, "k") : n.Cursor.Col = DesiredCol /\ n.Cursor.Row < Cursor.Row

\* C32: DeleteChar(row, col) with row and col in bounds removes exactly the
\* character at col of that line (the line is one shorter, all other lines
\* unchanged) and returns (row, min(col, max(0, newLen-1))); when row is out
\* of range, the line is empty, or col is outside [0, len-1], it changes
\* nothing and returns (row, col) unchanged.
DeleteCharRemovesOne ==
    \A row \in Rows(Buffer), col \in Cols(Buffer) :
      LET res == DeleteChar(Buffer, row, col) IN
      IF RowOK(Buffer, row) /\ 0 <= col /\ col < Len(At(Buffer, row))
      THEN LET old == At(Buffer, row)
               new == At(res.Lines, row)
           IN /\ Len(res.Lines) = Len(Buffer)
              /\ Len(new) = Len(old) - 1
              /\ \A i \in 0..(col - 1) : At(new, i) = At(old, i)
              /\ \A i \in col..(Len(new) - 1) : At(new, i) = At(old, i + 1)
              /\ \A r \in 0..(Len(Buffer) - 1) :
                   r # row => At(res.Lines, r) = At(Buffer, r)
              /\ res.Pos = Pos(row, Min(col, Max(0, Len(new) - 1)))
      ELSE res = BufRes(Buffer, Pos(row, col))

\* the cursor is on the last of several characters of a line, where the
\* deletion pulls the returned column back by one
DeleteCharRemovesOneWitness ==
    /\ RowOK(Buffer, Cursor.Row)
    /\ Len(At(Buffer, Cursor.Row)) >= 2
    /\ Cursor.Col = Len(At(Buffer, Cursor.Row)) - 1
    /\ Len(Buffer) >= 2
    /\ DeleteChar(Buffer, Cursor.Row, Cursor.Col).Pos = Pos(Cursor.Row, Cursor.Col - 1)

\* what the claim says of the key pressed at the current state, n being a
\* session the key leads to
LineCountStep(key, n) ==
    LET a == Feed(Parser, key).r.Action IN
    IF VimMode = "ModeInsert" THEN
        CASE key = "enter" ->
               /\ Len(n.Buffer) = Len(Buffer) + 1
               /\ n.Cursor = Pos(Cursor.Row + 1, 0)
          [] key = "backspace" /\ Cursor.Col = 0 /\ Cursor.Row > 0 ->
               Len(n.Buffer) = Len(Buffer) - 1
          [] key = "backspace" /\ Cursor = Pos(0, 0) ->
               n = M
          [] OTHER -> Len(n.Buffer) = Len(Buffer)
    ELSE
        CASE a = "ActionOpenBelow" ->
               /\ Len(n.Buffer) = Len(Buffer) + 1
               /\ n.Cursor = Pos(Cursor.Row + 1, 0)
               /\ At(n.Buffer, n.Cursor.Row) = <<>>
          [] a = "ActionOpenAbove" ->
               /\ Len(n.Buffer) = Len(Buffer) + 1
               /\ n.Cursor = Pos(Cursor.Row, 0)
               /\ At(n.Buffer, n.Cursor.Row) = <<>>
          [] a = "ActionUndo" ->
               n.Buffer = (IF Undo.Past = <<>> THEN Buffer
                           ELSE Undo.Past[Len(Undo.Past)].Lines)
          [] a = "ActionRedo" ->
               n.Buffer = (IF Undo.Future = <<>> THEN Buffer
                           ELSE Undo.Future[Len(Undo.Future)].Lines)
          [] OTHER -> Len(n.Buffer) = Len(Buffer)

\* C33: the number of buffer lines changes only in these ways: enter in
\* Insert mode, o and O each increase it by exactly one and put the cursor at
\* column 0 of the new line; backspace at column 0 of a row > 0 decreases it
\* by exactly one; u and ctrl+r set it to the restored snapshot's count; every
\* other keypress, backspace at (0,0) included, which is a complete no-op,
\* leaves it unchanged.
LineCountChangesOnlyByEdits ==
    Playing =>
      /\ \A key \in AllKeys : \A n \in Update(M, key) : LineCountStep(key, n)
      /\ Ready =>
           /\ Feed(Parser, "o").r.Action = "ActionOpenBelow"
           /\ Feed(Parser, "O").r.Action = "ActionOpenAbove"
           /\ Feed(Parser, "u").r.Action = "ActionUndo"
           /\ Feed(Parser, "ctrl+r").r.Action = "ActionRedo"

\* o has opened a line below the first: in Insert mode at column 0 of a row
\* > 0, backspace joins the lines again and enter splits once more
LineCountChangesOnlyByEditsWitness ==
    /\ Playing
    /\ VimMode = "ModeInsert"
    /\ Cursor.Row > 0
    /\ Cursor.Col = 0
    /\ \E n \in Update(M, "backspace") : Len(n.Buffer) = Len(Buffer) - 1
    /\ \E n \in Update(M, "enter") : Len(n.Buffer) = Len(Buffer) + 1

----------------------------------------------------------------------------
(* Index safety of the session: which keypresses reach an index or slice
   expression with an operand out of range. *)

\* some of the count calls of ApplyMotion in handleMotion's loop panics
RECURSIVE RepeatMotionPanics(_, _, _, _, _)
RepeatMotionPanics(lines, pos, motion, char, count) ==
    IF count <= 0 THEN FALSE
    ELSE IF count = 1 THEN ApplyMotionPanics(lines, pos, motion)
    ELSE LET half  == count \div 2
             first == RepeatMotion(lines, pos, motion, char, half)
         IN \/ RepeatMotionPanics(lines, pos, motion, char, half)
            \/ RepeatMotionPanics(lines, first, motion, char, count - half)

\* handlePlayingInput reaches an out-of-range index for this key: in
\* DeleteCharBefore, in m.Buffer.Lines[m.Cursor.Row] of handleEnterInsert and
\* of the curswant block, or in ApplyMotion
handlePlayingInputPanics(m, key) ==
    LET result == Feed(m.Parser, key).r
        count  == IF result.Count = 0 THEN 1 ELSE result.Count
    IN
    /\ result.Consumed
    /\ CASE result.Action = "ActionInsertBackspace" ->
              DeleteCharBeforePanics(m.Buffer, m.Cursor.Row, m.Cursor.Col)
         [] result.Action \in {"ActionInsertAfter", "ActionAppendEOL"} ->
              ~RowOK(m.Buffer, m.Cursor.Row)
         [] result.Action = "ActionMotion" ->
              IF result.Count > 0 /\ result.Motion \in {"MotionGG", "MotionBigG"}
              THEN FALSE
              ELSE \/ RepeatMotionPanics(m.Buffer, m.Cursor, result.Motion,
                                         result.Char, count)
                   \/ /\ result.Motion \in {"MotionJ", "MotionK"}
                      /\ ~RowOK(m.Buffer,
                                RepeatMotion(m.Buffer, m.Cursor, result.Motion,
                                             result.Char, count).Row)
         [] OTHER -> FALSE

\* 0 <= Cursor.Row < len(Buffer.Lines) and 0 <= Cursor.Col <= len(line)
IndexesBuffer(m) ==
    /\ RowOK(m.Buffer, m.Cursor.Row)
    /\ 0 <= m.Cursor.Col
    /\ m.Cursor.Col <= Len(At(m.Buffer, m.Cursor.Row))

\* keys whose handlers index the buffer at the cursor
IndexingKeys == {"backspace", "a", "A", "w", "b", "e", "$", "^", "j", "k", "x"}

\* C34: in every reachable session state while playing, the cursor can be
\* used to index the buffer safely: 0 <= Cursor.Row < len(Buffer.Lines) and
\* 0 <= Cursor.Col <= len(Buffer.Lines[Cursor.Row]), so that no keypress
\* (motion, counted motion, edit, insert-mode typing, undo, redo) triggers an
\* out-of-range access in ApplyMotion, the Buffer primitives or the dispatcher.
CursorIndexesBuffer ==
    Playing =>
      /\ IndexesBuffer(M)
      /\ \A key \in AllKeys :
           /\ ~handlePlayingInputPanics(M, key)
           /\ \A n \in Update(M, key) :
                n.State = "StatePlaying" =>
                  /\ IndexesBuffer(n)
                  /\ (VimMode = "ModeInsert" \/ n.VimMode = "ModeInsert") =>
                       \A k2 \in IndexingKeys : ~handlePlayingInputPanics(n, k2)

\* Insert mode with the cursor one past the last character of a line that
\* is not empty: Cursor.Col = len(line), and backspace removes that character
CursorIndexesBufferWitness ==
    /\ Playing
    /\ VimMode = "ModeInsert"
    /\ Cursor.Col > 0
    /\ Cursor.Col = Len(At(Buffer, Cursor.Row))
    /\ \E n \in Update(M, "backspace") :
         /\ n.Cursor.Col = Cursor.Col - 1
         /\ Len(At(n.Buffer, n.Cursor.Row)) = Cursor.Col - 1

\* C35: the session's vim mode and the parser's mode never diverge: after
\* every keypress handled in the playing state VimMode = Parser.Mode, and
\* whenever the mode is Insert the game state is StatePlaying; a key that
\* keeps Insert mode neither leaves play, completes the exercise nor touches
\* the undo history, and only esc ends the mode.
ModesNeverDiverge ==
    /\ VimMode = Parser.Mode
    /\ VimMode = "ModeInsert" => Playing
    /\ Playing =>
         \A key \in AllKeys : \A n \in Update(M, key) :
           /\ n.VimMode = n.Parser.Mode
           /\ n.VimMode = "ModeInsert" => n.State = "StatePlaying"
           /\ VimMode = "ModeInsert" =>
                IF key = "esc"
                THEN n.VimMode = "ModeNormal" /\ n.Undo = Undo
                ELSE /\ n.VimMode = "ModeInsert"
                     /\ n.Undo = Undo
                     /\ n.Score = Score /\ n.TargetsHit = TargetsHit

\* Insert mode one esc away from the goal of the edit exercise: esc ends the
\* mode on both sides and completes the exercise
ModesNeverDivergeWitness ==
    /\ Playing
    /\ VimMode = "ModeInsert"
    /\ Parser.Mode = "ModeInsert"
    /\ \E n \in Update(M, "esc") :
         /\ n.VimMode = "ModeNormal"
         /\ n.Parser.Mode = "ModeNormal"
         /\ n.State = "StateExerciseComplete"

\* the counts typed before x
DeleteCounts == {<<>>, <<"1">>, <<"2">>, <<"3">>, <<"1", "0">>}

DeleteCountOf(ds) == IF ds = <<>> THEN 1 ELSE Decimal(ds)

\* C36: x with a count n deletes forward only: starting with the cursor at
\* column c of a line of length L, nx removes exactly min(n, L-c) characters,
\* all from columns >= c of the original line, and never removes a character
\* that was to the left of the original cursor column.
CountedXDeletesForward ==
    (Ready /\ Parser.Count = 0 /\ Cursor.Col < Len(At(Buffer, Cursor.Row))) =>
      \A ds \in DeleteCounts : \A n \in RunKeys({M}, ds \o <<"x">>) :
        LET line == At(Buffer, Cursor.Row)
            k    == Min(DeleteCountOf(ds), Len(line) - Cursor.Col)
        IN n.Buffer = SetLine(Buffer, Cursor.Row,
                              Slice(line, 0, Cursor.Col)
                                \o Slice(line, Cursor.Col + k, Len(line)))

\* Normal-mode commands other than j, k and $, each ending in Normal mode
ColumnCommands ==
    {<<"l">>, <<"x">>, <<"r", "a">>, <<"i", "esc">>, <<"a", "esc">>,
     <<"i", "a", "esc">>, <<"x", "u">>, <<"x", "u", "ctrl+r">>}

\* C37: the desired column follows the cursor across edits: after any
\* Normal-mode command other than j, k and $ that leaves the cursor at column
\* c (x, r{char}, an insert session ended by esc, u and ctrl+r included), the
\* next j or k places the cursor at column min(c, max(0, len(newLine)-1)).
DesiredColumnFollowsEdits ==
    (Ready /\ Parser.Count = 0) =>
      \A cmd \in ColumnCommands : \A m1 \in RunKeys({M}, cmd) :
        m1.State = "StatePlaying" =>
          \A key \in {"j", "k"} : \A n \in Update(m1, key) :
            n.Cursor.Col = Min(m1.Cursor.Col,
                               Max(0, Len(At(n.Buffer, n.Cursor.Row)) - 1))

\* the actions after which the dispatcher calls checkGoalReached
GoalCheckingActions ==
    {"ActionDeleteChar", "ActionReplaceChar", "ActionExitInsert", "ActionUndo",
     "ActionRedo"}

\* C38: in an edit exercise whose initial buffer differs from its goal,
\* whenever the session is in StatePlaying and Normal mode between keypresses
\* the buffer lines differ from the goal lines: the state becomes
\* StateExerciseComplete exactly at the first x, r{char}, esc-from-insert, u
\* or ctrl+r after which the buffer equals the goal, and never while in
\* Insert mode or because of a motion.
GoalReachedExactlyAtEdits ==
    (Playing /\ ~MotionExercise /\ CurrentExercise.InitBuffer # GoalLines) =>
      /\ VimMode = "ModeNormal" => Buffer # GoalLines
      /\ \A key \in AllKeys : \A n \in Update(M, key) :
           /\ n.State = "StateExerciseComplete" <=>
                /\ key # "ctrl+c"
                /\ Feed(Parser, key).r.Action \in GoalCheckingActions
                /\ n.Buffer = GoalLines
           /\ n.State = "StateExerciseComplete" => n.VimMode = "ModeNormal"

\* an edit exercise that was edited without reaching the goal, and where x
\* now completes it
GoalReachedExactlyAtEditsWitness ==
    /\ Playing
    /\ ~MotionExercise
    /\ VimMode = "ModeNormal"
    /\ Undo.Past # <<>>
    /\ Buffer # CurrentExercise.InitBuffer
    /\ \E n \in Update(M, "x") :
         n.State = "StateExerciseComplete" /\ n.Buffer = GoalLines

\* pos is a position of lines that holds a character other than a space
OnNonSpace(lines, pos) ==
    /\ 0 <= pos.Row /\ pos.Row < Len(lines)
    /\ 0 <= pos.Col /\ pos.Col < Len(At(lines, pos.Row))
    /\ At(At(lines, pos.Row), pos.Col) # " "

\* C39: in a motion exercise, in every reachable StatePlaying state, the
\* target is a position the cursor can occupy in the current buffer:
\* Target.Row < len(Buffer.Lines), Target.Col < len(Buffer.Lines[Target.Row])
\* and the character there is not a space, even after the player edits the
\* buffer with x, r, insert-mode typing, o/O or undo/redo.
TargetStaysOnCharacter ==
    (Playing /\ MotionExercise) =>
      /\ OnNonSpace(Buffer, Target)
      /\ \A key \in AllKeys : \A n \in Update(M, key) :
           n.State = "StatePlaying" => OnNonSpace(n.Buffer, n.Target)

\* the cursor after w was pressed count times from p
PressW(lines, p, count) == RepeatMotion(lines, p, "MotionW", "", count)

\* C40: the whole buffer is reachable with w: for every buffer (those with
\* consecutive empty lines or whitespace-only lines included) and every
\* in-bounds cursor, pressing w repeatedly eventually brings the cursor to the
\* last row of the buffer and then to its last character, where it stays.
WordForwardReachesEnd ==
    \A p \in InBounds(Buffer) :
      \E k \in 0..(Size(Buffer) + 1) :
        /\ PressW(Buffer, p, k) = FinalPos(Buffer)
        /\ PressW(Buffer, p, k + 1) = FinalPos(Buffer)
        /\ \E j \in 0..k : PressW(Buffer, p, j).Row = Len(Buffer) - 1

====
